---- MODULE Spec2Model ----
(***************************************************************************)
(* A model of the leaderboard scoring service, leaderboard-api/main.go:    *)
(* the scores table (PostgreSQL), the Redis cache, and the HTTP handlers   *)
(* submitScoreHandler, getTopScoresHandler, getPlayerStatsHandler and      *)
(* healthHandler, each run by concurrent workers and cut into one step per *)
(* access to the store or the cache.                                       *)
(*                                                                         *)
(* Time is in whole seconds.  A store query or a cache operation either    *)
(* succeeds or fails, chosen freely at every call (an unreachable or       *)
(* erroring dependency); a failed statement changes nothing in the store.  *)
(***************************************************************************)
EXTENDS Integers, Sequences, FiniteSets, TLC

VARIABLES
    store,      \* the rows of table scores, in insertion order
    nextId,     \* the next value of the SERIAL sequence of scores.id
    redis,      \* the cache: a partial map key -> [val, exp]
    now,        \* the wall clock, in seconds
    ticks,      \* number of times the clock was advanced
    req,        \* worker -> the request it is handling and its locals
    budget,     \* number of requests the service will still accept
    scoreSubmissionsTotal,   \* counter score.submissions.total
    scoreSubmissionErrors,   \* counter score.submission.errors.total, by label
    lastTop,    \* history: the last leaderboard answered over an unchanged store
    proc,       \* the process: where main is, and its retries
    tracker     \* the session heartbeat tracker of the game page in a browser

service == <<store, nextId, redis, now, ticks, req, budget,
             scoreSubmissionsTotal, scoreSubmissionErrors, lastTop, proc>>

vars == <<store, nextId, redis, now, ticks, req, budget,
          scoreSubmissionsTotal, scoreSubmissionErrors, lastTop, proc, tracker>>

----------------------------------------------------------------------------
(* Program constants *)

maxRealisticScore == 100000

minScoreSubmissionInterval == 10

cacheTTL == 300

maxPlayerNameBytes == 100

varcharLimit == 100

defaultLimit == 100

maxLimit == 1000

recentLimit == 10

(* maxRetries of connectDB and of connectRedis, and the sleep between two   *)
(* pings, in seconds                                                        *)
dbMaxRetries == 10

redisMaxRetries == 10

retrySleep == 2

(* the timeout of srv.Shutdown, in seconds *)
shutdownGrace == 10

(* Bounds of the model *)

MaxReqs == 3

MaxTicks == 2

----------------------------------------------------------------------------
(* Strings are sequences of characters; a character is one code point.     *)
(* Go's len(s) counts the bytes of the UTF-8 encoding, PostgreSQL's        *)
(* VARCHAR(n) counts characters.                                           *)

(* "e_acute" stands for U+00E9, two bytes in UTF-8; the others are ASCII *)
utf8Width(c) == IF c = "e_acute" THEN 2 ELSE 1

charsOfWidth(s, n) == Cardinality({i \in DOMAIN s : utf8Width(s[i]) = n})

(* len(s) of Go: the number of bytes, the sum of the widths of the characters *)
byteLen(s) == charsOfWidth(s, 1) + 2 * charsOfWidth(s, 2)

charLen(s) == Len(s)

Repeat(c, n) == [i \in 1..n |-> c]

Anonymous == <<"A", "n", "o", "n", "y", "m", "o", "u", "s">>

Chani == <<"C", "h", "a", "n", "i">>

Paul == <<"P", "a", "u", "l">>

S1 == <<"s", "1">>

S2 == <<"s", "2">>

EmptyStr == <<>>

----------------------------------------------------------------------------
(* The cache keys *)

cacheKeyTopScores == <<"leaderboard:top:100">>

cacheKeyPlayerRank(score) == <<"leaderboard:player:", score, ":rank">>

(* The cache is a partial map key -> [val, exp]; exp is the expiry time.   *)
(* GET: a key read at time t is a hit when it is set and not yet expired.  *)
redisLive(rd, k, t) == k \in DOMAIN rd /\ t < rd[k].exp

redisPut(rd, k, e) == [x \in DOMAIN rd \cup {k} |-> IF x = k THEN e ELSE rd[x]]

redisSetLongTTL(rd, k, v, t) == redisPut(rd, k, [val |-> v, exp |-> t + cacheTTL + cacheTTL])

(* SET key value cacheTTL *)
redisSet(rd, k, v, t) == redisPut(rd, k, [val |-> v, exp |-> t + cacheTTL])

(* History of the entry of key k: the time its writer read the store and  *)
(* the number of rows the table had then                                  *)
redisNote(rd, k, t0, n) ==
    [rd EXCEPT ![k] = [val |-> @.val, exp |-> @.exp, g_read |-> t0, g_len |-> n]]

redisDelNothing(rd, k) == rd

(* DEL key *)
redisDel(rd, k) == [x \in DOMAIN rd \ {k} |-> rd[x]]

(* Redis drops a key when its expiry time is reached *)
redisExpire(rd, t) == [x \in {k \in DOMAIN rd : t < rd[k].exp} |-> rd[x]]

----------------------------------------------------------------------------
(* The store access layer *)

(* The column constraints of CREATE TABLE scores *)
rowFits(sub) ==
    /\ charLen(sub.playerName) <= varcharLimit
    /\ charLen(sub.sessionId) <= varcharLimit

newRow(nid, sub, t) ==
    [id |-> nid, player_name |-> sub.playerName, score |-> sub.score,
     session_id |-> sub.sessionId, created_at |-> t]

insertRowReplace(st, nid, sub, t) ==
    IF st = <<>> THEN <<newRow(nid, sub, t)>>
    ELSE [st EXCEPT ![Len(st)] = newRow(nid, sub, t)]

insertRowSameId(st, nid, sub, t) == Append(st, newRow(1, sub, t))

(* INSERT INTO scores (player_name, score, session_id) VALUES ... *)
insertRow(st, nid, sub, t) == Append(st, newRow(nid, sub, t))

countAllRows(st, score) == Len(st)

countGreaterOrEqual(st, score) == Cardinality({i \in DOMAIN st : st[i].score >= score})

countLess(st, score) == Cardinality({i \in DOMAIN st : st[i].score < score})

(* SELECT COUNT( * ) FROM scores WHERE score > $1 *)
countGreaterThan(st, score) == Cardinality({i \in DOMAIN st : st[i].score > score})

(* SELECT created_at ... WHERE session_id = $1 ORDER BY created_at DESC LIMIT 1 *)
sessionRows(st, sid) == {i \in DOMAIN st : st[i].session_id = sid}

latestSubmissionTime(st, sid) ==
    LET ts == {st[i].created_at : i \in sessionRows(st, sid)}
    IN  CHOOSE t \in ts : \A u \in ts : u <= t

----------------------------------------------------------------------------
(* Validation *)

NoErr == [reason |-> "", wait |-> 0, suspicious |-> FALSE]

Err(r, s) == [reason |-> r, wait |-> 0, suspicious |-> s]

rateExceededLE(elapsed) == elapsed <= minScoreSubmissionInterval

rateExceededNever(elapsed) == FALSE

(* timeSinceLastSubmission < minScoreSubmissionInterval *)
rateExceeded(elapsed) == elapsed < minScoreSubmissionInterval

checkSubmissionRateFailsClosed(st, sid, t, dbOk) ==
    IF ~dbOk
    THEN [reason |-> "please wait", suspicious |-> TRUE,
          wait |-> minScoreSubmissionInterval]
    ELSE IF sessionRows(st, sid) = {} THEN NoErr
    ELSE LET elapsed == t - latestSubmissionTime(st, sid)
         IN  IF rateExceeded(elapsed)
             THEN [reason |-> "please wait", suspicious |-> TRUE,
                   wait |-> minScoreSubmissionInterval - elapsed]
             ELSE NoErr

(* checkSubmissionRate: any error of the lookup, "no rows" included, allows *)
checkSubmissionRate(st, sid, t, dbOk) ==
    IF ~dbOk \/ sessionRows(st, sid) = {} THEN NoErr
    ELSE LET elapsed == t - latestSubmissionTime(st, sid)
         IN  IF rateExceeded(elapsed)
             THEN [reason |-> "please wait", suspicious |-> TRUE,
                   wait |-> minScoreSubmissionInterval - elapsed]
             ELSE NoErr

defaultNameKeepsEmpty(name) == name

(* if submission.PlayerName == "" { submission.PlayerName = "Anonymous" } *)
defaultName(name) == IF name = EmptyStr THEN Anonymous ELSE name

scoreTooHighGE(score) == score >= maxRealisticScore

scoreTooHighAboveNext(score) == score > maxRealisticScore + 1

(* submission.Score > maxRealisticScore *)
scoreTooHigh(score) == score > maxRealisticScore

basicValidationFlagsAll(sub) ==
    IF byteLen(sub.playerName) > maxPlayerNameBytes
        THEN Err("player name too long", TRUE)
    ELSE IF sub.score < 0
        THEN Err("invalid score: negative value", TRUE)
    ELSE IF sub.sessionId = EmptyStr
        THEN Err("session ID required", TRUE)
    ELSE IF scoreTooHigh(sub.score)
        THEN Err("score too high", TRUE)
    ELSE NoErr

(* validateScore, the rules before the rate check: the error, or NoErr;   *)
(* the flag of the error is the span attribute validation.suspicious      *)
basicValidation(sub) ==
    IF byteLen(sub.playerName) > maxPlayerNameBytes
        THEN Err("player name too long", FALSE)
    ELSE IF sub.score < 0
        THEN Err("invalid score: negative value", TRUE)
    ELSE IF sub.sessionId = EmptyStr
        THEN Err("session ID required", FALSE)
    ELSE IF scoreTooHigh(sub.score)
        THEN Err("score too high", TRUE)
    ELSE NoErr

(* validateScore on the submission with its name defaulted *)
validateScore(st, sub, t, dbOk) ==
    LET basic == basicValidation(sub)
    IN  IF basic # NoErr THEN basic
        ELSE checkSubmissionRate(st, sub.sessionId, t, dbOk)

----------------------------------------------------------------------------
(* The read queries *)

Min(a, b) == IF a < b THEN a ELSE b

(* The orders a query may return n rows in: every permutation sorted by    *)
(* keys descending.  SQL leaves the order of rows with equal keys open.    *)
sortedPerms(keys) ==
    LET n == Len(keys)
        above == [j \in 1..n |-> Cardinality({k \in 1..n : keys[k] > keys[j]})]
        tied == [j \in 1..n |-> Cardinality({k \in 1..n : keys[k] = keys[j]})]
        most == IF n = 0 THEN 0
                ELSE CHOOSE m \in {tied[j] : j \in 1..n} : \A j \in 1..n : tied[j] <= m
        (* the place of each row among the rows with its key *)
        places == {t \in [1..n -> 1..most] :
                    /\ \A j \in 1..n : t[j] <= tied[j]
                    /\ \A j, k \in 1..n : (j # k /\ keys[j] = keys[k]) => t[j] # t[k]}
    IN  {[i \in 1..n |-> CHOOSE j \in 1..n : above[j] + t[j] = i] : t \in places}

leaderboardEntry(rk, row) ==
    [rank |-> rk, playerName |-> row.player_name, score |-> row.score,
     createdAt |-> row.created_at]

(* SELECT ROW_NUMBER() OVER (ORDER BY score DESC), player_name, score,     *)
(* created_at FROM scores ORDER BY score DESC LIMIT $1: the possible lists *)
topN(st, limit) ==
    LET keys == [i \in 1..Len(st) |-> st[i].score]
    IN  {[i \in 1..Min(limit, Len(st)) |-> leaderboardEntry(i, st[p[i]])] :
            p \in sortedPerms(keys)}

playerRows(st, name) == SelectSeq(st, LAMBDA r : r.player_name = name)

RECURSIVE maxScore(_)
maxScore(rows) ==
    IF rows = <<>> THEN 0
    ELSE LET m == maxScore(Tail(rows))
         IN  IF Head(rows).score > m THEN Head(rows).score ELSE m

(* SELECT COALESCE(MAX(score), 0) FROM scores WHERE player_name = $1 *)
bestScoreOf(st, name) == maxScore(playerRows(st, name))

(* SELECT COUNT( * ) FROM scores WHERE player_name = $1 *)
totalGamesOf(st, name) == Len(playerRows(st, name))

(* SELECT score, created_at ... WHERE player_name = $1                     *)
(* ORDER BY created_at DESC LIMIT 10: the possible lists                   *)
recentScoresOf(st, name) ==
    LET rows == playerRows(st, name)
        keys == [i \in 1..Len(rows) |-> rows[i].created_at]
    IN  {[i \in 1..Min(recentLimit, Len(rows)) |->
            [rank |-> 0, playerName |-> name, score |-> rows[p[i]].score,
             createdAt |-> rows[p[i]].created_at]] :
            p \in sortedPerms(keys)}

(* The limit query parameter: absent, a decimal number, or other text *)
NoParam == [kind |-> "absent", n |-> 0]

IntParam(n) == [kind |-> "int", n |-> n]

TextParam == [kind |-> "text", n |-> 0]

parseLimitCapped(p) ==
    IF p.kind = "int" /\ p.n > 0 THEN Min(p.n, maxLimit) ELSE defaultLimit

(* strconv.Atoi, then l > 0 && l <= 1000, else the default stays *)
parseLimit(p) ==
    IF p.kind = "int" /\ p.n > 0 /\ p.n <= maxLimit THEN p.n ELSE defaultLimit

----------------------------------------------------------------------------
(* The router.  A path is the sequence of its segments; a request line is  *)
(* a method and a path.                                                    *)

Line(m, p) == [method |-> m, path |-> p]

Route(m, p, h) == [method |-> m, path |-> p, handler |-> h]

(* router.PathPrefix("/spice/leaderboard").Subrouter() *)
pathPrefix == <<"spice", "leaderboard">>

prefixRoutesMirror ==
    {Route("GET", <<"health">>, "health"),
     Route("POST", <<"api", "scores">>, "submit"),
     Route("GET", <<"api", "leaderboard", "top">>, "top"),
     Route("GET", <<"api", "leaderboard", "player", "{name}">>, "stats"),
     Route("GET", <<"metrics">>, "metrics")}

(* The routes of apiRouter, below the prefix *)
prefixRoutes ==
    {Route("POST", <<"api", "scores">>, "submit"),
     Route("GET", <<"api", "leaderboard", "top">>, "top"),
     Route("GET", <<"api", "leaderboard", "player", "{name}">>, "stats"),
     Route("GET", <<"api", "health">>, "health")}

(* The routes of router itself *)
directRoutes ==
    {Route("GET", <<"health">>, "health"),
     Route("POST", <<"api", "scores">>, "submit"),
     Route("GET", <<"api", "leaderboard", "top">>, "top"),
     Route("GET", <<"api", "leaderboard", "player", "{name}">>, "stats"),
     Route("GET", <<"metrics">>, "metrics")}

routes ==
    {Route(r.method, pathPrefix \o r.path, r.handler) : r \in prefixRoutes}
        \cup directRoutes

(* A segment of a template matches itself; {name} matches any segment     *)
(* that is not empty                                                      *)
segmentMatches(t, s) == IF t = "{name}" THEN s # "" ELSE t = s

pathMatches(template, p) ==
    /\ Len(template) = Len(p)
    /\ \A i \in 1..Len(p) : segmentMatches(template[i], p[i])

(* mux.Router.Match: the handler of the route whose path and method match; *)
(* 405 when only paths match, 404 when nothing does                       *)
matchRoute(line) ==
    LET byPath == {r \in routes : pathMatches(r.path, line.path)}
        byBoth == {r \in byPath : r.method = line.method}
    IN  IF byBoth # {}
        THEN [matched |-> TRUE, handler |-> (CHOOSE r \in byBoth : TRUE).handler, status |-> 0]
        ELSE [matched |-> FALSE, handler |-> "mux",
              status |-> IF byPath # {} THEN 405 ELSE 404]

(* The segment that spells the name of a player *)
segmentOf(name) ==
    IF name = Chani THEN "Chani" ELSE IF name = Paul THEN "Paul" ELSE "other"

(* The request line of a handler on the routes of router itself *)
DirectLine(op) ==
    IF op = "submit" THEN Line("POST", <<"api", "scores">>)
    ELSE IF op = "top" THEN Line("GET", <<"api", "leaderboard", "top">>)
    ELSE IF op = "health" THEN Line("GET", <<"health">>)
    ELSE Line("GET", <<"metrics">>)

StatsLine(name) == Line("GET", <<"api", "leaderboard", "player", segmentOf(name)>>)

----------------------------------------------------------------------------
(* A worker's request: its operation, its position and its locals.  The    *)
(* fields g_* are history: what this request did and saw.  g_hits and      *)
(* g_misses are what it added to cacheHitTotal and to cacheMissTotal.      *)
(* method and path are the request line, allowOrigin is the header         *)
(* Access-Control-Allow-Origin of the answer.                              *)

NoSub == [playerName |-> EmptyStr, score |-> 0, sessionId |-> EmptyStr]

IdleSlot ==
    [op |-> "idle", pc |-> "idle", sub |-> NoSub, param |-> NoParam, limit |-> 0,
     name |-> EmptyStr,
     id |-> 0, rank |-> 0, list |-> <<>>, best |-> 0, total |-> 0,
     status |-> 0, err |-> NoErr, createdAt |-> 0,
     database |-> "", cache |-> "",
     g_inserted |-> 0, g_cacheOps |-> {}, g_rankSrc |-> "none", g_rankLen |-> 0,
     g_len0 |-> 0, g_len1 |-> 0, g_seen |-> {}, g_t0 |-> 0,
     g_rateQueried |-> FALSE, g_lookupFailed |-> FALSE,
     g_topSrc |-> "none", g_countFailed |-> FALSE, g_noName |-> FALSE,
     g_dbPing |-> "none", g_rdPing |-> "none",
     g_hits |-> 0, g_misses |-> 0, g_counted |-> FALSE, g_readAt |-> 0,
     g_readLen |-> 0,
     method |-> "", path |-> <<>>, allowOrigin |-> ""]

ErrorLabels == {"invalid_json", "validation_failed", "db_insert_failed"}

NoTop == [limit |-> 0, list |-> <<>>, len |-> -1]

(* The process: the step main is at, the failed pings of connectDB and of  *)
(* connectRedis, why it exited, the requests in flight when it exited, and *)
(* the deadline of srv.Shutdown                                            *)
(* g_done is history: the steps of main that have returned, in order       *)
Booting ==
    [phase |-> "initOTel", dbFails |-> 0, rdFails |-> 0, cause |-> "none",
     dropped |-> 0, deadline |-> 0, g_done |-> <<>>]

StartupOrder == <<"initOTel", "connectDB", "initDB", "connectRedis", "listen">>

Serving == [Booting EXCEPT !.phase = "serving", !.g_done = StartupOrder]

----------------------------------------------------------------------------
(* The session heartbeat tracker of the game page.  Its callbacks run one  *)
(* at a time on the event loop of the page; times are in milliseconds.     *)

IDLE_TIMEOUT_MS == 300000

MAX_SESSION_DURATION_MS == 1800000

HEARTBEAT_INTERVAL_MS == 5000

null == -1

(* Date.now() when the script is set up *)
PageLoaded == 1000

(* What JavaScript takes for true in a condition on a number or null *)
truthy(x) == x # null /\ x # 0

(* The variables of the closure, the clock and the interval timers of the  *)
(* page (handle -> time it is due), and document.hidden.                   *)
(* elapses counts the times the clock was advanced.                        *)
(* out is history: the events the last callback has sent, each with the    *)
(* value isGameActive had when it was sent; g_call is the last callback    *)
(* and g_was what the closure and the timers were before it                *)
closure(t) ==
    [isGameActive |-> t.isGameActive, heartbeatInterval |-> t.heartbeatInterval,
     lastActivityTime |-> t.lastActivityTime,
     sessionStartTime |-> t.sessionStartTime, timers |-> t.timers]

NewClosure ==
    [isGameActive |-> FALSE, heartbeatInterval |-> null,
     lastActivityTime |-> PageLoaded, sessionStartTime |-> null,
     timers |-> [h \in {} |-> 0]]

NewTracker ==
    [isGameActive |-> FALSE, heartbeatInterval |-> null,
     lastActivityTime |-> PageLoaded, sessionStartTime |-> null,
     dateNow |-> PageLoaded, timers |-> [h \in {} |-> 0], hidden |-> FALSE,
     elapses |-> 0, out |-> <<>>, g_call |-> "none", g_was |-> NewClosure]

(* faro.api.pushEvent, and navigator.sendBeacon *)
pushEvent(t, name, status, reason) ==
    [t EXCEPT !.out = Append(@, [name |-> name, status |-> status,
                                 reason |-> reason, g_active |-> t.isGameActive])]

(* setInterval: a handle no timer of the page has *)
setInterval(timers, due) ==
    LET h == CHOOSE i \in 1..(Cardinality(DOMAIN timers) + 1) : i \notin DOMAIN timers
    IN  [handle |-> h,
         timers |-> [i \in DOMAIN timers \cup {h} |->
                        IF i = h THEN due ELSE timers[i]]]

clearIntervalNothing(timers, h) == timers

clearInterval(timers, h) == [i \in DOMAIN timers \ {h} |-> timers[i]]

setInactive(t) ==
    IF t.isGameActive
    THEN LET a == [t EXCEPT !.isGameActive = FALSE]
             b == IF truthy(a.heartbeatInterval)
                  THEN [a EXCEPT !.timers = clearInterval(@, a.heartbeatInterval),
                                 !.heartbeatInterval = null]
                  ELSE a
             c == pushEvent(b, "game_session_heartbeat", "inactive", "")
         IN  [c EXCEPT !.sessionStartTime = null]
    ELSE t

sendHeartbeat(t) ==
    IF ~t.isGameActive
    THEN t
    ELSE LET idleTime == t.dateNow - t.lastActivityTime
             sessionDuration == IF truthy(t.sessionStartTime)
                                THEN t.dateNow - t.sessionStartTime ELSE 0
         IN  IF idleTime > IDLE_TIMEOUT_MS
             THEN setInactive(pushEvent(t, "game_session_timeout", "", "idle"))
             ELSE IF sessionDuration > MAX_SESSION_DURATION_MS
             THEN setInactive(pushEvent(t, "game_session_timeout", "", "max_duration"))
             ELSE pushEvent(t, "game_session_heartbeat", "active", "")

setActive(t) ==
    IF ~t.isGameActive
    THEN LET a == [t EXCEPT !.isGameActive = TRUE, !.sessionStartTime = t.dateNow,
                            !.lastActivityTime = t.dateNow]
             b == sendHeartbeat(a)
             s == setInterval(b.timers, b.dateNow + HEARTBEAT_INTERVAL_MS)
         IN  [b EXCEPT !.heartbeatInterval = s.handle, !.timers = s.timers]
    ELSE t

updateActivity(t) == [t EXCEPT !.lastActivityTime = t.dateNow]

(* The listener of visibilitychange *)
visibilityChanged(t) ==
    IF ~t.hidden /\ t.isGameActive
    THEN [t EXCEPT !.lastActivityTime = t.dateNow]
    ELSE t

(* The listener of beforeunload *)
beforeUnload(t) ==
    IF t.isGameActive
    THEN setInactive(pushEvent(t, "game_session_close", "", "tab_close"))
    ELSE t

(* The process is at step p of main over the rows the table holds, the     *)
(* rows of earlier runs: SERIAL has numbered them from 1                   *)
InitProcess(p, rows, workers, n) ==
    /\ tracker = NewTracker
    /\ proc = p
    /\ store = rows
    /\ nextId = Len(rows) + 1
    /\ redis = [k \in {} |-> [val |-> 0, exp |-> 0]]
    /\ now = 0
    /\ ticks = 0
    /\ req = [w \in workers |-> IdleSlot]
    /\ budget = n
    /\ scoreSubmissionsTotal = 0
    /\ scoreSubmissionErrors = [l \in ErrorLabels |-> 0]
    /\ lastTop = NoTop

(* A callback of the page starts: nothing sent yet *)
enter(t, call) == [t EXCEPT !.out = <<>>, !.g_call = call, !.g_was = closure(t)]

SetActive ==
    /\ tracker' = setActive(enter(tracker, "setActive"))
    /\ UNCHANGED service

SetInactive ==
    /\ tracker' = setInactive(enter(tracker, "setInactive"))
    /\ UNCHANGED service

UpdateActivity ==
    /\ tracker' = updateActivity(enter(tracker, "updateActivity"))
    /\ UNCHANGED service

(* An interval timer that is due fires: it is due again one interval       *)
(* later, and its callback sendHeartbeat runs                              *)
TimerFires ==
    /\ \E h \in DOMAIN tracker.timers :
          /\ tracker.timers[h] <= tracker.dateNow
          /\ tracker' = sendHeartbeat(
                 [enter(tracker, "timer") EXCEPT
                    !.timers[h] = tracker.dateNow + HEARTBEAT_INTERVAL_MS])
    /\ UNCHANGED service

(* The tab is hidden or shown *)
VisibilityChange ==
    /\ tracker' = visibilityChanged(
           [enter(tracker, "visibilitychange") EXCEPT !.hidden = ~tracker.hidden])
    /\ UNCHANGED service

BeforeUnload ==
    /\ tracker' = beforeUnload(enter(tracker, "beforeunload"))
    /\ UNCHANGED service

MaxElapses == 4

Elapses == {HEARTBEAT_INTERVAL_MS, IDLE_TIMEOUT_MS, MAX_SESSION_DURATION_MS}

(* The clock of the page advances between two callbacks *)
Elapse(d) ==
    /\ tracker.elapses < MaxElapses
    /\ tracker' = [tracker EXCEPT !.dateNow = @ + d, !.elapses = @ + 1]
    /\ UNCHANGED service

(* The service is serving *)
InitOver(rows, workers, n) == InitProcess(Serving, rows, workers, n)

(* The service starts over an empty table *)
InitWith(workers, n) == InitOver(<<>>, workers, n)

(* A request goes to the first free worker: which worker runs it makes no *)
(* difference to the handlers                                            *)
(* One worker: the requests run one after the other *)
Init == InitWith({1}, MaxReqs)

(* Two workers: two requests may be in flight at once *)
InitConc == InitWith({1, 2}, MaxReqs)

acceptingFromListen(p) == p.phase \in {"listen", "serving"}

acceptingUntilExit(p) == p.phase \in {"serving", "shutdown"}

(* The listener is open from ListenAndServe to srv.Shutdown *)
accepting(p) == p.phase = "serving"

CanStart(w) ==
    /\ accepting(proc)
    /\ req[w].pc = "idle"
    /\ \A v \in DOMAIN req : v < w => req[v].pc # "idle"
    /\ budget > 0

(* The rows whose submit has not answered yet *)
Unanswered ==
    {req[v].id : v \in {u \in DOMAIN req : req[u].op = "submit" /\ req[u].g_inserted = 1
                                            /\ req[u].pc # "done"}}

(* The handler of a matched route starts below corsMiddleware, which has   *)
(* set the headers of the answer                                           *)
BeginAt(op, pc, line) ==
    [IdleSlot EXCEPT !.op = op, !.pc = pc, !.g_len0 = Len(store), !.g_t0 = now,
                     !.g_seen = {store[i].id : i \in DOMAIN store} \ Unanswered,
                     !.method = line.method, !.path = line.path,
                     !.allowOrigin = "*"]

Begin(op, pc) == BeginAt(op, pc, DirectLine(op))

countErrorTwice(label) ==
    scoreSubmissionErrors' = [scoreSubmissionErrors EXCEPT ![label] = @ + 2]

(* scoreSubmissionErrors.Add(ctx, 1, error = label) *)
countError(label) ==
    scoreSubmissionErrors' = [scoreSubmissionErrors EXCEPT ![label] = @ + 1]

----------------------------------------------------------------------------
(* submitScoreHandler *)

(* The request body: not JSON for a ScoreSubmission, or a ScoreSubmission *)
BadBody == [ok |-> FALSE, playerName |-> EmptyStr, score |-> 0, sessionId |-> EmptyStr]

Body(n, sc, sid) == [ok |-> TRUE, playerName |-> n, score |-> sc, sessionId |-> sid]

(* json.Decode, then validateScore: the name defaulted, the four local    *)
(* rules, and the rate lookup in the store when they pass                 *)
StartSubmitAt(w, body, oks, line) ==
    /\ CanStart(w)
    /\ budget' = budget - 1
    /\ UNCHANGED <<store, nextId, redis, now, ticks, scoreSubmissionsTotal, lastTop, proc, tracker>>
    /\ IF ~body.ok
       THEN /\ countError("invalid_json")
            /\ req' = [req EXCEPT ![w] =
                 [BeginAt("submit", "done", line) EXCEPT !.status = 400,
                    !.err = Err("Invalid request body", FALSE)]]
       ELSE \E dbOk \in oks :
            LET sub == [playerName |-> defaultName(body.playerName),
                        score |-> body.score, sessionId |-> body.sessionId]
                err == validateScore(store, sub, now, dbOk)
                slot == [BeginAt("submit", "insert", line) EXCEPT !.sub = sub,
                           !.g_noName = (body.playerName = EmptyStr),
                           !.g_rateQueried = (basicValidation(sub) = NoErr),
                           !.g_lookupFailed = (basicValidation(sub) = NoErr /\ ~dbOk)]
            IN  IF err # NoErr
                THEN /\ countError("validation_failed")
                     /\ req' = [req EXCEPT ![w] =
                          [slot EXCEPT !.pc = "done", !.status = 400, !.err = err]]
                ELSE /\ req' = [req EXCEPT ![w] = slot]
                     /\ UNCHANGED scoreSubmissionErrors

StartSubmit(w, body, oks) == StartSubmitAt(w, body, oks, DirectLine("submit"))

insertFailedGoesOn == "invalidate"

(* where submitScoreHandler goes when insertScore returned an error *)
insertFailedNext == "done"

(* insertScore; the sequence advances even when the row is refused *)
SubmitInsert(w, oks) ==
    /\ req[w].op = "submit" /\ req[w].pc = "insert"
    /\ UNCHANGED <<redis, now, ticks, budget, scoreSubmissionsTotal, lastTop, proc, tracker>>
    /\ \E dbOk \in oks :
        IF dbOk /\ rowFits(req[w].sub)
        THEN /\ store' = insertRow(store, nextId, req[w].sub, now)
             /\ nextId' = nextId + 1
             /\ req' = [req EXCEPT ![w].pc = "invalidate", ![w].id = nextId,
                                   ![w].g_inserted = @ + 1,
                                   ![w].g_lookupFailed = FALSE]
             /\ UNCHANGED scoreSubmissionErrors
        ELSE /\ UNCHANGED store
             /\ nextId' = IF dbOk THEN nextId + 1 ELSE nextId
             /\ countError("db_insert_failed")
             /\ req' = [req EXCEPT ![w].pc = insertFailedNext, ![w].status = 500,
                                   ![w].g_lookupFailed = FALSE,
                                   ![w].err = Err("Failed to save score", FALSE)]

(* invalidateCache: DEL of the snapshot key; an error is only logged *)
SubmitInvalidate(w, oks) ==
    /\ req[w].op = "submit" /\ req[w].pc = "invalidate"
    /\ UNCHANGED <<store, nextId, now, ticks, budget, scoreSubmissionsTotal,
                   scoreSubmissionErrors, lastTop, proc, tracker>>
    /\ \E rdOk \in oks :
        /\ redis' = IF rdOk THEN redisDel(redis, cacheKeyTopScores) ELSE redis
        /\ req' = [req EXCEPT ![w].pc = "rankGet",
                     ![w].g_cacheOps = IF rdOk THEN @ \cup {"del"} ELSE @]

----------------------------------------------------------------------------
(* calculateRank, called by submitScoreHandler and getPlayerStatsHandler *)

rankScoreOfSubmission(slot) == slot.sub.score

(* The score calculateRank is called with: the submitted score, or the     *)
(* best score of the player                                                *)
rankScore(slot) == IF slot.op = "submit" THEN slot.sub.score ELSE slot.best

rankOnErrorZero(rk, failed) == IF failed THEN 0 ELSE rk

(* submitScoreHandler: rank = -1 when calculateRank returned an error *)
rankOnError(rk, failed) == IF failed THEN -1 ELSE rk

(* The caller's step after calculateRank returned (rk, failed):            *)
(* submitScoreHandler counts the submission and answers 201;               *)
(* getPlayerStatsHandler drops the error and goes on with the rank         *)
AfterRank(w, slot, rk, failed) ==
    IF slot.op = "submit"
    THEN /\ req' = [req EXCEPT ![w] =
              [slot EXCEPT !.pc = "done", !.status = 201,
                           !.rank = rankOnError(rk, failed), !.createdAt = now,
                           !.g_len1 = Len(store)]]
         /\ scoreSubmissionsTotal' = scoreSubmissionsTotal + 1
    ELSE /\ req' = [req EXCEPT ![w] = [slot EXCEPT !.pc = "statsCount", !.rank = rk]]
         /\ UNCHANGED scoreSubmissionsTotal

rankMissSkipsCount == "rankSet"

(* where calculateRank goes when the GET found nothing or failed *)
rankMissNext == "rankCount"

(* GET of the rank key of this score *)
RankGet(w, oks) ==
    /\ req[w].pc = "rankGet"
    /\ UNCHANGED <<store, nextId, redis, now, ticks, budget, scoreSubmissionErrors, lastTop, proc, tracker>>
    /\ \E rdOk \in oks :
        LET k == cacheKeyPlayerRank(rankScore(req[w]))
        IN  IF rdOk /\ redisLive(redis, k, now)
            THEN AfterRank(w, [req[w] EXCEPT !.g_rankSrc = "hit", !.g_rankLen = Len(store),
                                             !.g_hits = @ + 1],
                           redis[k].val, FALSE)
            ELSE /\ req' = [req EXCEPT ![w].pc = rankMissNext, ![w].g_rankSrc = "miss",
                                       ![w].g_misses = @ + 1]
                 /\ UNCHANGED scoreSubmissionsTotal

(* SELECT COUNT( * ) + 1 FROM scores WHERE score > $1 *)
RankCount(w, oks) ==
    /\ req[w].pc = "rankCount"
    /\ UNCHANGED <<store, nextId, redis, now, ticks, budget, scoreSubmissionErrors, lastTop, proc, tracker>>
    /\ \E dbOk \in oks :
        IF dbOk
        THEN /\ req' = [req EXCEPT ![w].pc = "rankSet",
                          ![w].rank = countGreaterThan(store, rankScore(req[w])) + 1,
                          ![w].g_rankLen = Len(store), ![w].g_counted = TRUE,
                          ![w].g_readAt = now, ![w].g_readLen = Len(store)]
             /\ UNCHANGED scoreSubmissionsTotal
        ELSE AfterRank(w, [req[w] EXCEPT !.g_rankSrc = "fail", !.g_rankLen = Len(store),
                                         !.g_counted = TRUE], 0, TRUE)

(* SET of the rank key; the result of the SET is not looked at *)
RankSet(w, oks) ==
    /\ req[w].pc = "rankSet"
    /\ UNCHANGED <<store, nextId, now, ticks, budget, scoreSubmissionErrors, lastTop, proc, tracker>>
    /\ \E rdOk \in oks :
        /\ redis' = IF rdOk
                    THEN redisNote(redisSet(redis, cacheKeyPlayerRank(rankScore(req[w])),
                                            req[w].rank, now),
                                   cacheKeyPlayerRank(rankScore(req[w])),
                                   req[w].g_readAt, req[w].g_readLen)
                    ELSE redis
        /\ AfterRank(w, [req[w] EXCEPT !.g_cacheOps =
                            IF rdOk THEN @ \cup {"rankSet"} ELSE @],
                     req[w].rank, FALSE)

----------------------------------------------------------------------------
(* getTopScoresHandler *)

StartTopAt(w, param, line) ==
    /\ CanStart(w)
    /\ budget' = budget - 1
    /\ req' = [req EXCEPT ![w] =
                 [BeginAt("top", "topGet", line) EXCEPT !.param = param,
                                                       !.limit = parseLimit(param)]]
    /\ UNCHANGED <<store, nextId, redis, now, ticks, scoreSubmissionsTotal,
                   scoreSubmissionErrors, lastTop, proc, tracker>>

StartTop(w, param) == StartTopAt(w, param, DirectLine("top"))

(* GET of the snapshot key, the same key for every limit; the values in   *)
(* the cache are the service's own JSON, so a hit always unmarshals       *)
TopGet(w, oks) ==
    /\ req[w].op = "top" /\ req[w].pc = "topGet"
    /\ UNCHANGED <<store, nextId, redis, now, ticks, budget, scoreSubmissionsTotal,
                   scoreSubmissionErrors, lastTop, proc, tracker>>
    /\ \E rdOk \in oks :
        IF rdOk /\ redisLive(redis, cacheKeyTopScores, now)
        THEN req' = [req EXCEPT ![w].pc = "done", ![w].status = 200,
                       ![w].list = redis[cacheKeyTopScores].val,
                       ![w].g_len1 = Len(store), ![w].g_topSrc = "hit",
                       ![w].g_hits = @ + 1]
        ELSE req' = [req EXCEPT ![w].pc = "topQuery", ![w].g_topSrc = "miss",
                       ![w].g_misses = @ + 1]

(* The top-N query; an error of the query answers 500 *)
TopQuery(w, oks) ==
    /\ req[w].op = "top" /\ req[w].pc = "topQuery"
    /\ UNCHANGED <<store, nextId, redis, now, ticks, budget, scoreSubmissionsTotal,
                   scoreSubmissionErrors, lastTop, proc, tracker>>
    /\ \E dbOk \in oks :
        IF dbOk
        THEN \E l \in topN(store, req[w].limit) :
                req' = [req EXCEPT ![w].pc = "topSet", ![w].list = l,
                          ![w].g_readAt = now, ![w].g_readLen = Len(store)]
        ELSE req' = [req EXCEPT ![w].pc = "done", ![w].status = 500,
                       ![w].err = Err("Failed to fetch leaderboard", FALSE),
                       ![w].g_len1 = Len(store)]

(* SET of the snapshot key, then the answer *)
TopSet(w, oks) ==
    /\ req[w].op = "top" /\ req[w].pc = "topSet"
    /\ UNCHANGED <<store, nextId, now, ticks, budget, scoreSubmissionsTotal,
                   scoreSubmissionErrors, lastTop, proc, tracker>>
    /\ \E rdOk \in oks :
        /\ redis' = IF rdOk
                    THEN redisNote(redisSet(redis, cacheKeyTopScores, req[w].list, now),
                                   cacheKeyTopScores, req[w].g_readAt, req[w].g_readLen)
                    ELSE redis
        /\ req' = [req EXCEPT ![w].pc = "done", ![w].status = 200,
                     ![w].g_len1 = Len(store),
                     ![w].g_cacheOps = IF rdOk THEN @ \cup {"topSet"} ELSE @]

----------------------------------------------------------------------------
(* getPlayerStatsHandler *)

(* mux.Vars(r)["name"]: the name the last segment of the path spells *)
StartStatsAt(w, name, line) ==
    /\ CanStart(w)
    /\ line.path[Len(line.path)] = segmentOf(name)
    /\ budget' = budget - 1
    /\ req' = [req EXCEPT ![w] =
                 [BeginAt("stats", "statsBest", line) EXCEPT !.name = name]]
    /\ UNCHANGED <<store, nextId, redis, now, ticks, scoreSubmissionsTotal,
                   scoreSubmissionErrors, lastTop, proc, tracker>>

StartStats(w, name) == StartStatsAt(w, name, StatsLine(name))

StatsBest(w, oks) ==
    /\ req[w].op = "stats" /\ req[w].pc = "statsBest"
    /\ UNCHANGED <<store, nextId, redis, now, ticks, budget, scoreSubmissionsTotal,
                   scoreSubmissionErrors, lastTop, proc, tracker>>
    /\ \E dbOk \in oks :
        IF dbOk
        THEN req' = [req EXCEPT ![w].pc = "rankGet",
                       ![w].best = bestScoreOf(store, req[w].name)]
        ELSE req' = [req EXCEPT ![w].pc = "done", ![w].status = 500,
                       ![w].err = Err("Failed to fetch player stats", FALSE)]

(* The count of games; an error of the query leaves totalGames = 0 *)
StatsCount(w, oks) ==
    /\ req[w].op = "stats" /\ req[w].pc = "statsCount"
    /\ UNCHANGED <<store, nextId, redis, now, ticks, budget, scoreSubmissionsTotal,
                   scoreSubmissionErrors, lastTop, proc, tracker>>
    /\ \E dbOk \in oks :
        req' = [req EXCEPT ![w].pc = "statsRecent",
                  ![w].total = IF dbOk THEN totalGamesOf(store, req[w].name) ELSE 0,
                  ![w].g_countFailed = ~dbOk]

StatsRecent(w, oks) ==
    /\ req[w].op = "stats" /\ req[w].pc = "statsRecent"
    /\ UNCHANGED <<store, nextId, redis, now, ticks, budget, scoreSubmissionsTotal,
                   scoreSubmissionErrors, lastTop, proc, tracker>>
    /\ \E dbOk \in oks :
        IF dbOk
        THEN \E l \in recentScoresOf(store, req[w].name) :
                req' = [req EXCEPT ![w].pc = "done", ![w].status = 200, ![w].list = l]
        ELSE req' = [req EXCEPT ![w].pc = "done", ![w].status = 500,
                       ![w].err = Err("Failed to fetch recent scores", FALSE)]

----------------------------------------------------------------------------
(* healthHandler: a ping of the store, then a ping of the cache *)

healthStatusOfBoth(dbOk, rdOk) == IF dbOk /\ rdOk THEN 200 ELSE 503

(* 503 is written in the branch of the failed ping of the store only *)
healthStatus(dbOk, rdOk) == IF dbOk THEN 200 ELSE 503

HealthAt(w, oks, line) ==
    /\ CanStart(w)
    /\ budget' = budget - 1
    /\ UNCHANGED <<store, nextId, redis, now, ticks, scoreSubmissionsTotal,
                   scoreSubmissionErrors, lastTop, proc, tracker>>
    /\ \E dbOk \in oks, rdOk \in oks :
        req' = [req EXCEPT ![w] =
                 [BeginAt("health", "done", line) EXCEPT
                    !.status = healthStatus(dbOk, rdOk),
                    !.err = Err(IF dbOk THEN "healthy" ELSE "unhealthy", FALSE),
                    !.database = IF dbOk THEN "up" ELSE "down",
                    !.cache = IF rdOk THEN "up" ELSE "down",
                    !.g_dbPing = IF dbOk THEN "ok" ELSE "fail",
                    !.g_rdPing = IF rdOk THEN "ok" ELSE "fail"]]

Health(w, oks) == HealthAt(w, oks, DirectLine("health"))

(* promhttp.Handler(): the metrics of the process as text *)
MetricsAt(w, line) ==
    /\ CanStart(w)
    /\ budget' = budget - 1
    /\ req' = [req EXCEPT ![w] = [BeginAt("metrics", "done", line) EXCEPT !.status = 200]]
    /\ UNCHANGED <<store, nextId, redis, now, ticks, scoreSubmissionsTotal,
                   scoreSubmissionErrors, lastTop, proc, tracker>>

(* No route matches the request line: mux answers 404 or 405 itself; the   *)
(* middlewares of router.Use run for matched routes only                   *)
MuxAnswers(w, line) ==
    /\ CanStart(w)
    /\ ~matchRoute(line).matched
    /\ budget' = budget - 1
    /\ req' = [req EXCEPT ![w] =
                 [IdleSlot EXCEPT !.op = "mux", !.pc = "done",
                                  !.status = matchRoute(line).status,
                                  !.method = line.method, !.path = line.path]]
    /\ UNCHANGED <<store, nextId, redis, now, ticks, scoreSubmissionsTotal,
                   scoreSubmissionErrors, lastTop, proc, tracker>>

(* A matched route: corsMiddleware answers OPTIONS itself with 200, and    *)
(* passes every other request on to the handler of the route               *)
Handle(w, line, bodies, params, names, oks) ==
    /\ matchRoute(line).matched
    /\ IF line.method = "OPTIONS"
       THEN /\ CanStart(w)
            /\ budget' = budget - 1
            /\ req' = [req EXCEPT ![w] =
                         [BeginAt("preflight", "done", line) EXCEPT !.status = 200]]
            /\ UNCHANGED <<store, nextId, redis, now, ticks, scoreSubmissionsTotal,
                           scoreSubmissionErrors, lastTop, proc, tracker>>
       ELSE LET h == matchRoute(line).handler
            IN  CASE h = "submit" -> \E b \in bodies : StartSubmitAt(w, b, oks, line)
                  [] h = "top" -> \E p \in params : StartTopAt(w, p, line)
                  [] h = "stats" -> \E n \in names : StartStatsAt(w, n, line)
                  [] h = "health" -> HealthAt(w, oks, line)
                  [] OTHER -> MetricsAt(w, line)

(* router.ServeHTTP *)
Serve(w, line, bodies, params, names, oks) ==
    \/ MuxAnswers(w, line)
    \/ Handle(w, line, bodies, params, names, oks)

----------------------------------------------------------------------------
(* The answer is written and the worker is free again.  lastTop keeps the  *)
(* list of a 200 leaderboard answer during which the store did not change. *)
Finish(w) ==
    /\ req[w].pc = "done"
    /\ req' = [req EXCEPT ![w] = IdleSlot]
    /\ lastTop' = IF req[w].op = "top" /\ req[w].status = 200
                     /\ req[w].g_len0 = req[w].g_len1
                  THEN [limit |-> req[w].limit, list |-> req[w].list,
                        len |-> req[w].g_len1]
                  ELSE lastTop
    /\ UNCHANGED <<store, nextId, redis, now, ticks, budget, scoreSubmissionsTotal,
                   scoreSubmissionErrors, proc, tracker>>

(* Time passes; Redis drops the keys that expire *)
Tick(d) ==
    /\ ticks < MaxTicks
    /\ ticks' = ticks + 1
    /\ now' = now + d
    /\ redis' = redisExpire(redis, now + d)
    /\ UNCHANGED <<store, nextId, req, budget, scoreSubmissionsTotal,
                   scoreSubmissionErrors, lastTop, proc, tracker>>

(* Time passes between two requests *)
TickIdle(d) ==
    /\ \A w \in DOMAIN req : req[w].pc = "idle"
    /\ Tick(d)

----------------------------------------------------------------------------
(* The outcomes of a call to the store or to the cache: TRUE is success. *)
MayFail == BOOLEAN

Healthy == {TRUE}

(* The inputs of the service run by one worker *)

Names == {Chani}

Scores == {-1, 0, 500}

Sessions == {S1, S2}

Bodies == {BadBody} \cup {Body(n, sc, sid) : n \in Names, sc \in Scores, sid \in Sessions}

LimitParams == {NoParam, IntParam(1)}

StatsNames == {Chani, Paul}

Deltas == {10, 300}

Submit(bodies, oks) ==
    \/ \E w \in DOMAIN req, b \in bodies : StartSubmit(w, b, oks)
    \/ \E w \in DOMAIN req : SubmitInsert(w, oks)
    \/ \E w \in DOMAIN req : SubmitInvalidate(w, oks)
    \/ \E w \in DOMAIN req : RankGet(w, oks)
    \/ \E w \in DOMAIN req : RankCount(w, oks)
    \/ \E w \in DOMAIN req : RankSet(w, oks)

Top(params, oks) ==
    \/ \E w \in DOMAIN req, p \in params : StartTop(w, p)
    \/ \E w \in DOMAIN req : TopGet(w, oks)
    \/ \E w \in DOMAIN req : TopQuery(w, oks)
    \/ \E w \in DOMAIN req : TopSet(w, oks)

Stats(names, oks) ==
    \/ \E w \in DOMAIN req, n \in names : StartStats(w, n)
    \/ \E w \in DOMAIN req : StatsBest(w, oks)
    \/ \E w \in DOMAIN req : StatsCount(w, oks)
    \/ \E w \in DOMAIN req : StatsRecent(w, oks)

Next ==
    \/ Submit(Bodies, MayFail)
    \/ Top(LimitParams, MayFail)
    \/ Stats(StatsNames, MayFail)
    \/ \E w \in DOMAIN req : Health(w, MayFail)
    \/ \E w \in DOMAIN req : Finish(w)
    \/ \E d \in Deltas : TickIdle(d)

Spec == Init /\ [][Next]_vars

(* The inputs of the service run by two workers; the clock stands still  *)
(* and the store and the cache answer every call                         *)

ConcBodies == {Body(Chani, sc, S1) : sc \in {0, 500}}

ConcParams == {NoParam, IntParam(1)}

NextConc ==
    \/ Submit(ConcBodies, Healthy)
    \/ Top(ConcParams, Healthy)
    \/ \E w \in DOMAIN req : Finish(w)

SpecConc == InitConc /\ [][NextConc]_vars

(* The leaderboard read by one worker while the store and the cache answer *)
(* every call; the submissions have different scores                       *)

MaxReadReqs == 5

InitReads == InitWith({1}, MaxReadReqs)

ReadBodies == {Body(Chani, 0, S1), Body(Paul, 500, S2)}

ReadParams == {NoParam, IntParam(1)}

NextReads ==
    \/ Submit(ReadBodies, Healthy)
    \/ Top(ReadParams, Healthy)
    \/ \E w \in DOMAIN req : Finish(w)
    \/ Tick(cacheTTL)

SpecReads == InitReads /\ [][NextReads]_vars

(* The service run by two workers while the clock advances, also between   *)
(* the steps of a request; the store and the cache answer every call       *)

MaxStaleReqs == 3

InitStale == InitWith({1, 2}, MaxStaleReqs)

StaleBodies == {Body(Chani, 500, S1)}

StaleParams == {NoParam}

NextStale ==
    \/ Submit(StaleBodies, Healthy)
    \/ Top(StaleParams, Healthy)
    \/ \E w \in DOMAIN req : Finish(w)
    \/ \E d \in Deltas : Tick(d)

SpecStale == InitStale /\ [][NextStale]_vars

(* Validation of one submission after the other, over names of every      *)
(* length and scores on both sides of the limits                           *)

MaxValidateReqs == 2

InitValidate == InitWith({1}, MaxValidateReqs)

WideNames ==
    {EmptyStr, Chani, Repeat("x", 100), Repeat("x", 101), Repeat("e_acute", 51)}

WideScores == {-1, 0, 100000, 100001}

WideSessions == {EmptyStr, S1}

WideBodies ==
    {BadBody} \cup
    {Body(n, sc, sid) : n \in WideNames, sc \in WideScores, sid \in WideSessions}

WideDeltas == {1, 9}

NextValidate ==
    \/ Submit(WideBodies, MayFail)
    \/ \E w \in DOMAIN req : Finish(w)
    \/ \E d \in WideDeltas : TickIdle(d)

SpecValidate == InitValidate /\ [][NextValidate]_vars

(* Submissions at the limits of the columns of the table, one after the   *)
(* other, while the store and the cache answer every call                 *)

MaxConstraintReqs == 2

InitConstraints == InitWith({1}, MaxConstraintReqs)

LongNames == {Chani, Repeat("x", 100)}

LongSessions == {S1, Repeat("s", 100), Repeat("s", 101)}

ConstraintBodies ==
    {Body(n, sc, sid) : n \in LongNames, sc \in {0, 100000}, sid \in LongSessions}

NextConstraints ==
    \/ Submit(ConstraintBodies, Healthy)
    \/ \E w \in DOMAIN req : Finish(w)
    \/ TickIdle(minScoreSubmissionInterval)

SpecConstraints == InitConstraints /\ [][NextConstraints]_vars

(* Requests with every method on the registered paths, on the same paths  *)
(* under the prefix and without it, while the store and the cache answer  *)
(* every call                                                             *)

MaxRouteReqs == 2

InitRoutes == InitWith({1}, MaxRouteReqs)

RouteMethods == {"GET", "POST", "OPTIONS"}

RouteTails ==
    {<<"health">>, <<"metrics">>, <<"api", "health">>, <<"api", "scores">>,
     <<"api", "leaderboard", "top">>,
     <<"api", "leaderboard", "player", segmentOf(Chani)>>}

RoutePaths == RouteTails \cup {pathPrefix \o t : t \in RouteTails}

RouteLines == {Line(m, p) : m \in RouteMethods, p \in RoutePaths}

RouteBodies == {Body(Chani, 500, S1)}

NextRoutes ==
    \/ \E w \in DOMAIN req, line \in RouteLines :
          Serve(w, line, RouteBodies, {NoParam}, {Chani}, Healthy)
    \/ \E w \in DOMAIN req : SubmitInsert(w, Healthy)
    \/ \E w \in DOMAIN req : SubmitInvalidate(w, Healthy)
    \/ \E w \in DOMAIN req : RankGet(w, Healthy)
    \/ \E w \in DOMAIN req : RankCount(w, Healthy)
    \/ \E w \in DOMAIN req : RankSet(w, Healthy)
    \/ \E w \in DOMAIN req : TopGet(w, Healthy)
    \/ \E w \in DOMAIN req : TopQuery(w, Healthy)
    \/ \E w \in DOMAIN req : TopSet(w, Healthy)
    \/ \E w \in DOMAIN req : StatsBest(w, Healthy)
    \/ \E w \in DOMAIN req : StatsCount(w, Healthy)
    \/ \E w \in DOMAIN req : StatsRecent(w, Healthy)
    \/ \E w \in DOMAIN req : Finish(w)

SpecRoutes == InitRoutes /\ [][NextRoutes]_vars

(* The game page alone: the game, the player, the timers and the tab call  *)
(* the tracker in any order while time passes                              *)

InitTracker == InitWith({1}, 0)

NextTracker ==
    \/ SetActive
    \/ SetInactive
    \/ UpdateActivity
    \/ TimerFires
    \/ VisibilityChange
    \/ BeforeUnload
    \/ \E d \in Elapses : Elapse(d)

SpecTracker == InitTracker /\ [][NextTracker]_vars

(* The leaderboard read over a table that holds more rows than the default *)
(* limit, left there by earlier runs of the service, with limits on both   *)
(* sides of the maximum                                                    *)

Preloaded == 101

MaxLimitReqs == 2

PreloadedRows ==
    [i \in 1..Preloaded |->
        newRow(i, [playerName |-> Chani, score |-> i, sessionId |-> S1], 0)]

InitLimit == InitOver(PreloadedRows, {1}, MaxLimitReqs)

WideLimits == {NoParam, TextParam, IntParam(0), IntParam(1000), IntParam(1001)}

NextLimit ==
    \/ Top(WideLimits, MayFail)
    \/ \E w \in DOMAIN req : Finish(w)
    \/ Tick(cacheTTL)

SpecLimit == InitLimit /\ [][NextLimit]_vars

(* The service run by one worker while the store answers every call and    *)
(* the cache may fail any call, and lose its keys by expiry at any moment  *)

MaxCacheReqs == 3

InitCache == InitWith({1}, MaxCacheReqs)

CacheBodies == {Body(Chani, 0, S1), Body(Paul, 500, S2), Body(Chani, -1, S1)}

CacheParams == {NoParam, IntParam(1)}

CacheNames == {Chani}

NextCache ==
    \/ \E w \in DOMAIN req, b \in CacheBodies : StartSubmit(w, b, Healthy)
    \/ \E w \in DOMAIN req : SubmitInsert(w, Healthy)
    \/ \E w \in DOMAIN req : SubmitInvalidate(w, MayFail)
    \/ \E w \in DOMAIN req : RankGet(w, MayFail)
    \/ \E w \in DOMAIN req : RankCount(w, Healthy)
    \/ \E w \in DOMAIN req : RankSet(w, MayFail)
    \/ \E w \in DOMAIN req, p \in CacheParams : StartTop(w, p)
    \/ \E w \in DOMAIN req : TopGet(w, MayFail)
    \/ \E w \in DOMAIN req : TopQuery(w, Healthy)
    \/ \E w \in DOMAIN req : TopSet(w, MayFail)
    \/ Stats(CacheNames, Healthy)
    \/ \E w \in DOMAIN req : Finish(w)
    \/ Tick(cacheTTL)

SpecCache == InitCache /\ [][NextCache]_vars

----------------------------------------------------------------------------
(* main, from its first line to ListenAndServe.  No request is in flight,  *)
(* and only the process and the clock change.                              *)

startupStep(p, t) ==
    /\ proc' = p
    /\ now' = t
    /\ redis' = redisExpire(redis, t)
    /\ UNCHANGED <<store, nextId, ticks, req, budget, scoreSubmissionsTotal,
                   scoreSubmissionErrors, lastTop,
                   tracker>>

exitWith(cause) == [proc EXCEPT !.phase = "exited", !.cause = cause]

(* otlptracegrpc.New is given grpc.WithBlock() and a context without       *)
(* deadline.  What that does when the collector is not reachable depends   *)
(* on the libraries of the build: the dial returns at once and connects    *)
(* in the background, or it returns an error, or it waits for the          *)
(* connection.                                                             *)
TelemetryOutcomes == {"ok", "error", "blocked"}

(* initOTel and initMetrics: an error is fatal *)
InitTelemetry(outcome) ==
    /\ proc.phase = "initOTel"
    /\ startupStep(IF outcome = "ok"
                   THEN [proc EXCEPT !.phase = "connectDB",
                                     !.g_done = Append(@, "initOTel")]
                   ELSE IF outcome = "error" THEN exitWith("telemetry")
                   ELSE [proc EXCEPT !.phase = "dialing"], now)

(* The collector becomes reachable: the blocking dial returns *)
CollectorAnswers ==
    /\ proc.phase = "dialing"
    /\ startupStep([proc EXCEPT !.phase = "connectDB",
                                !.g_done = Append(@, "initOTel")], now)

(* connectDB: one ping of the loop; after maxRetries failed pings the      *)
(* error is fatal in main                                                  *)
PingDB(ok) ==
    /\ proc.phase = "connectDB"
    /\ IF ok
       THEN startupStep([proc EXCEPT !.phase = "initDB",
                                     !.g_done = Append(@, "connectDB")], now)
       ELSE startupStep(IF proc.dbFails + 1 = dbMaxRetries
                        THEN [exitWith("database") EXCEPT !.dbFails = @ + 1]
                        ELSE [proc EXCEPT !.dbFails = @ + 1],
                        now + retrySleep)

(* initDB: CREATE TABLE IF NOT EXISTS; an error is fatal *)
InitSchema(ok) ==
    /\ proc.phase = "initDB"
    /\ startupStep(IF ok THEN [proc EXCEPT !.phase = "connectRedis",
                                           !.g_done = Append(@, "initDB")]
                   ELSE exitWith("schema"), now)

connectRedisFatal == "exited"

(* where main goes when connectRedis gave up: it returns the client *)
connectRedisGaveUpNext == "listen"

(* connectRedis: one ping of the loop *)
PingRedis(ok) ==
    /\ proc.phase = "connectRedis"
    /\ IF ok
       THEN startupStep([proc EXCEPT !.phase = "listen",
                                     !.g_done = Append(@, "connectRedis")], now)
       ELSE startupStep(IF proc.rdFails + 1 = redisMaxRetries
                        THEN [proc EXCEPT !.rdFails = @ + 1,
                                          !.phase = connectRedisGaveUpNext,
                                          !.g_done = Append(@, "connectRedis")]
                        ELSE [proc EXCEPT !.rdFails = @ + 1],
                        now + retrySleep)

(* srv.ListenAndServe: an error other than ErrServerClosed is fatal *)
Listen(ok) ==
    /\ proc.phase = "listen"
    /\ startupStep(IF ok THEN [proc EXCEPT !.phase = "serving",
                                           !.g_done = Append(@, "listen")]
                   ELSE exitWith("listen"), now)

(* The process starts over a table that holds the rows of an earlier run,  *)
(* and then serves leaderboard and health requests                         *)

MaxStartupReqs == 2

EarlierRows ==
    <<newRow(1, [playerName |-> Chani, score |-> 500, sessionId |-> S1], 0),
      newRow(2, [playerName |-> Paul, score |-> 0, sessionId |-> S2], 0)>>

InitStartup == InitProcess(Booting, EarlierRows, {1}, MaxStartupReqs)

StartupParams == {NoParam}

(* The steps main takes by itself *)
StartupSteps ==
    \/ \E outcome \in TelemetryOutcomes : InitTelemetry(outcome)
    \/ \E ok \in MayFail : PingDB(ok)
    \/ \E ok \in MayFail : InitSchema(ok)
    \/ \E ok \in MayFail : PingRedis(ok)
    \/ \E ok \in MayFail : Listen(ok)

NextStartup ==
    \/ StartupSteps
    \/ CollectorAnswers
    \/ Top(StartupParams, MayFail)
    \/ \E w \in DOMAIN req : Health(w, MayFail)
    \/ \E w \in DOMAIN req : Finish(w)

SpecStartup == InitStartup /\ [][NextStartup]_vars

(* Every call of main returns when it can: a ping answers or fails, the    *)
(* sleep between two pings ends.  Nothing makes the collector reachable.   *)
SpecStartupFair == SpecStartup /\ WF_vars(StartupSteps)

----------------------------------------------------------------------------
(* main, from the signal to its end: srv.Shutdown closes the listener and  *)
(* waits for the requests in flight, at most shutdownGrace seconds         *)

InFlight == {w \in DOMAIN req : req[w].pc # "idle"}

(* SIGINT or SIGTERM arrives on quit: srv.Shutdown is called *)
Signal ==
    /\ proc.phase = "serving"
    /\ proc' = [proc EXCEPT !.phase = "shutdown", !.deadline = now + shutdownGrace]
    /\ UNCHANGED <<store, nextId, redis, now, ticks, req, budget,
                   scoreSubmissionsTotal, scoreSubmissionErrors, lastTop,
                   tracker>>

(* srv.Shutdown returns nil when no request is in flight; main returns *)
ShutdownReturns ==
    /\ proc.phase = "shutdown"
    /\ InFlight = {}
    /\ proc' = exitWith("shutdown")
    /\ UNCHANGED <<store, nextId, redis, now, ticks, req, budget,
                   scoreSubmissionsTotal, scoreSubmissionErrors, lastTop,
                   tracker>>

(* The context of srv.Shutdown expires while requests are in flight:       *)
(* log.Fatalf ends the process and the handlers with it                    *)
GraceElapses ==
    /\ proc.phase = "shutdown"
    /\ InFlight # {}
    /\ proc' = [exitWith("forced") EXCEPT !.dropped = Cardinality(InFlight)]
    /\ now' = proc.deadline
    /\ redis' = redisExpire(redis, proc.deadline)
    /\ req' = [w \in DOMAIN req |-> IdleSlot]
    /\ UNCHANGED <<store, nextId, ticks, budget, scoreSubmissionsTotal,
                   scoreSubmissionErrors, lastTop,
                   tracker>>

(* The service run by two workers until a signal ends it *)

MaxShutdownReqs == 3

InitShutdown == InitOver(EarlierRows, {1, 2}, MaxShutdownReqs)

ShutdownParams == {NoParam}

NextShutdown ==
    \/ Top(ShutdownParams, Healthy)
    \/ \E w \in DOMAIN req : Health(w, MayFail)
    \/ \E w \in DOMAIN req : Finish(w)
    \/ Signal
    \/ ShutdownReturns
    \/ GraceElapses

(* srv.Shutdown returns: at the latest when the timer of its context fires *)
SpecShutdown ==
    InitShutdown /\ [][NextShutdown]_vars /\ WF_vars(ShutdownReturns \/ GraceElapses)

----------------------------------------------------------------------------
(* The claims.  A submit request has been decoded when its body was JSON;  *)
(* it has been validated as soon as it is in flight, and it was accepted   *)
(* by the validation unless it was answered 400.                           *)

Decoded(r) == r.op = "submit" /\ r.err.reason # "Invalid request body"

Rejected(r, reason) == r.status = 400 /\ r.err.reason = reason

(* The rows of the request's session that were in the store when the      *)
(* request was validated                                                   *)
SessionRowsAtStart(r) == {i \in 1..r.g_len0 : store[i].session_id = r.sub.sessionId}

LastCreatedAtStart(r) ==
    LET ts == {store[i].created_at : i \in SessionRowsAtStart(r)}
    IN  CHOOSE t \in ts : \A u \in ts : u <= t

NoRecordInWindow(r) ==
    \A i \in SessionRowsAtStart(r) : r.g_t0 - store[i].created_at >= 10

(* C1: a submit with a name of at most 100 characters, a session          *)
(* identifier and no record of its session in the last 10 seconds is       *)
(* accepted when 0 <= score <= 100000, rejected as too high above 100000   *)
(* and rejected as negative below 0.                                       *)
C1_ScoreBounds ==
    \A w \in DOMAIN req :
        LET r == req[w]
        IN  (/\ Decoded(r)
             /\ charLen(r.sub.playerName) <= 100
             /\ r.sub.sessionId # EmptyStr
             /\ NoRecordInWindow(r))
            => /\ (0 <= r.sub.score /\ r.sub.score <= 100000) => r.status # 400
               /\ r.sub.score > 100000 => Rejected(r, "score too high")
               /\ r.sub.score < 0 => Rejected(r, "invalid score: negative value")

(* C1 for the names of at most 100 bytes: the score bounds hold *)
C1_ScoreBoundsOfShortNames ==
    \A w \in DOMAIN req :
        LET r == req[w]
        IN  (/\ Decoded(r)
             /\ byteLen(r.sub.playerName) <= 100
             /\ r.sub.sessionId # EmptyStr
             /\ NoRecordInWindow(r))
            => /\ (0 <= r.sub.score /\ r.sub.score <= 100000) => r.status # 400
               /\ r.sub.score > 100000 => Rejected(r, "score too high")
               /\ r.sub.score < 0 => Rejected(r, "invalid score: negative value")

(* C2: a valid submit of a session that has a record is rejected with 400  *)
(* when it is validated less than 10 seconds after the creation of the     *)
(* session's last record, and accepted from 10 seconds on.                 *)
C2_RateLimit ==
    \A w \in DOMAIN req :
        LET r == req[w]
        IN  (/\ Decoded(r)
             /\ basicValidation(r.sub) = NoErr
             /\ SessionRowsAtStart(r) # {})
            => LET elapsed == r.g_t0 - LastCreatedAtStart(r)
               IN  /\ elapsed < 10 => r.status = 400
                   /\ elapsed >= 10 => r.status # 400

(* C2 when the lookup of the last record succeeded: the limit is exact *)
C2_RateLimitWhenLookupSucceeds ==
    \A w \in DOMAIN req :
        LET r == req[w]
        IN  (/\ Decoded(r)
             /\ basicValidation(r.sub) = NoErr
             /\ SessionRowsAtStart(r) # {}
             /\ r.pc \in {"insert", "done"} /\ r.g_inserted = 0 /\ r.status # 500
             /\ ~r.g_lookupFailed)
            => LET elapsed == r.g_t0 - LastCreatedAtStart(r)
               IN  /\ elapsed < 10 => r.status = 400
                   /\ elapsed >= 10 => r.status # 400

(* C3: the ids of the rows are pairwise different, and a submit answered   *)
(* 201 has inserted exactly one row, the one with the id of its answer.    *)
UniqueIds == \A i, j \in DOMAIN store : i # j => store[i].id # store[j].id

RowsOf(r) == {i \in DOMAIN store : store[i].id = r.id}

C3_UniqueIds ==
    /\ UniqueIds
    /\ \A w \in DOMAIN req :
        LET r == req[w]
        IN  (r.op = "submit" /\ r.status = 201)
            => /\ r.g_inserted = 1
               /\ Cardinality(RowsOf(r)) = 1
               /\ \A i \in RowsOf(r) :
                    /\ store[i].player_name = r.sub.playerName
                    /\ store[i].score = r.sub.score
                    /\ store[i].session_id = r.sub.sessionId

(* Two submits with the same payload have both succeeded *)
C3_Witness ==
    \E i, j \in DOMAIN store :
        /\ i < j
        /\ store[i].player_name = store[j].player_name
        /\ store[i].score = store[j].score
        /\ store[i].session_id = store[j].session_id
        /\ \E w \in DOMAIN req :
            req[w].op = "submit" /\ req[w].status = 201 /\ req[w].id = store[j].id

(* C4: a row of the store stays, unchanged, in every later state, and a    *)
(* row is added only by the insert step of a submit.                       *)
C4_AppendOnly ==
    [][/\ \A i \in DOMAIN store : i \in DOMAIN store' /\ store'[i] = store[i]
       /\ store' # store =>
            /\ Len(store') = Len(store) + 1
            /\ \E w \in DOMAIN req :
                /\ req[w].op = "submit" /\ req[w].pc = "insert"
                /\ req'[w].g_inserted = 1
                /\ store'[Len(store')].id = req'[w].id]_vars

(* Two rows are stored and a player-statistics request has been answered *)
C4_Witness ==
    /\ Len(store) = 2
    /\ \E w \in DOMAIN req : req[w].op = "stats" /\ req[w].pc = "done"

(* C5: a submit answers 201 exactly when it inserted one row; one that     *)
(* answers 400 or 500 inserted nothing, left the store as it was, touched  *)
(* no cache key and computed no rank.                                      *)
C5_SubmitAllOrNothing ==
    \A w \in DOMAIN req :
        LET r == req[w]
        IN  (r.op = "submit" /\ r.pc = "done")
            => /\ r.status \in {201, 400, 500}
               /\ r.g_inserted <= 1
               /\ r.status = 201 <=> r.g_inserted = 1
               /\ r.status # 201 =>
                    /\ Len(store) = r.g_len0
                    /\ r.g_cacheOps = {}
                    /\ r.g_rankSrc = "none"

(* A submit whose insert failed has answered 500 *)
C5_Witness ==
    \E w \in DOMAIN req :
        req[w].op = "submit" /\ req[w].pc = "done" /\ req[w].status = 500

(* The rank of score s over the first k rows of the store *)
TrueRankAt(k, s) == Cardinality({i \in 1..k : store[i].score > s}) + 1

RankProbes == {0, 250, 500, 100000}

RankCached(s) == redisLive(redis, cacheKeyPlayerRank(s), now)

RankReturned(s) ==
    IF RankCached(s) THEN redis[cacheKeyPlayerRank(s)].val
    ELSE countGreaterThan(store, s) + 1

C8_RankFailureIsSoft ==
    /\ scoreSubmissionsTotal =
         Cardinality({i \in DOMAIN store : store[i].id \notin Unanswered})
    /\ \A w \in DOMAIN req :
        LET r == req[w]
        IN  (r.op = "submit" /\ r.g_rankSrc = "fail")
            => /\ r.pc = "done" /\ r.status = 201 /\ r.rank = -1
               /\ r.g_inserted = 1
               /\ \E i \in DOMAIN store :
                    store[i].id = r.id /\ store[i].score = r.sub.score

(* A submit whose rank computation failed has answered *)
C8_Witness ==
    \E w \in DOMAIN req :
        req[w].op = "submit" /\ req[w].g_rankSrc = "fail" /\ req[w].pc = "done"

(* C9: a leaderboard answered 200 shows every row whose submit had         *)
(* answered 201 before the request started and that the limit includes.    *)
RowShown(row, list) ==
    \E j \in DOMAIN list :
        /\ list[j].playerName = row.player_name
        /\ list[j].score = row.score
        /\ list[j].createdAt = row.created_at

WithinLimit(row, limit) ==
    Cardinality({i \in DOMAIN store : store[i].score >= row.score}) <= limit

C9_FreshAfterSubmit ==
    \A w \in DOMAIN req :
        LET r == req[w]
        IN  (r.op = "top" /\ r.pc = "done" /\ r.status = 200)
            => \A i \in DOMAIN store :
                (store[i].id \in r.g_seen /\ WithinLimit(store[i], r.limit))
                => RowShown(store[i], r.list)

(* C10: a leaderboard answered 200 over an unchanged store is the list of  *)
(* the last such answer for the same limit over the same store.            *)
C10_IdempotentRead ==
    \A w \in DOMAIN req :
        LET r == req[w]
        IN  (/\ r.op = "top" /\ r.pc = "done" /\ r.status = 200
             /\ r.g_len0 = r.g_len1
             /\ lastTop.len = r.g_len1
             /\ lastTop.limit = r.limit)
            => r.list = lastTop.list

(* The same, over a store whose scores are pairwise different, where the   *)
(* order of the query is determined                                        *)
DistinctScores ==
    \A i, j \in DOMAIN store : i # j => store[i].score # store[j].score

C10_IdempotentReadOfDistinctScores ==
    \A w \in DOMAIN req :
        LET r == req[w]
        IN  (/\ r.op = "top" /\ r.pc = "done" /\ r.status = 200
             /\ r.g_len0 = r.g_len1
             /\ lastTop.len = r.g_len1
             /\ lastTop.limit = r.limit
             /\ DistinctScores)
            => r.list = lastTop.list

(* C11: a leaderboard answered 200 over an unchanged store has exactly     *)
(* min(limit, number of rows) entries, in non-increasing order of score,   *)
(* the entry at position i with rank i, on a hit as on a miss.             *)
SortedByScore(list) ==
    \A i, j \in DOMAIN list : i < j => list[i].score >= list[j].score

RankedByPosition(list) == \A i \in DOMAIN list : list[i].rank = i

C11_TopListOfLimit ==
    \A w \in DOMAIN req :
        LET r == req[w]
        IN  (/\ r.op = "top" /\ r.pc = "done" /\ r.status = 200
             /\ r.g_len0 = r.g_len1)
            => /\ Len(r.list) = Min(r.limit, Len(store))
               /\ SortedByScore(r.list)
               /\ RankedByPosition(r.list)

(* C12 as claimed: a request with a limit above 1000 is answered with the  *)
(* top min(1000, number of rows) entries.                                  *)
OverMax(r) == r.op = "top" /\ r.param.kind = "int" /\ r.param.n > maxLimit

C12_LimitCapped ==
    \A w \in DOMAIN req :
        LET r == req[w]
        IN  (OverMax(r) /\ r.pc = "done" /\ r.status = 200)
            => Len(r.list) = Min(maxLimit, Len(store))

(* C12 as amended: a limit above 1000 is replaced by the default 100; the  *)
(* query of such a request is limited to 100 rows, and on a miss of the    *)
(* cache its answer is the top min(100, number of rows) entries.           *)
C12_LimitAboveMaxIsDefault ==
    \A w \in DOMAIN req :
        LET r == req[w]
        IN  OverMax(r)
            => /\ r.limit = defaultLimit
               /\ (r.pc = "done" /\ r.status = 200 /\ r.g_topSrc = "miss")
                    => /\ Len(r.list) = Min(defaultLimit, Len(store))
                       /\ \A i \in DOMAIN r.list :
                            r.list[i].score = Len(store) + 1 - i

(* A request for 1001 entries over more than 100 rows is answered 100 *)
C12_Witness ==
    \E w \in DOMAIN req :
        /\ OverMax(req[w]) /\ req[w].pc = "done" /\ req[w].status = 200
        /\ req[w].g_topSrc = "miss"
        /\ Len(store) > defaultLimit
        /\ Len(req[w].list) = defaultLimit

(* C13: a health answer is 503 "unhealthy" exactly when the ping of the    *)
(* store failed, and 200 "healthy" when it succeeded whatever the ping of  *)
(* the cache; database and redis each report their own ping.               *)
C13_HealthFollowsStore ==
    \A w \in DOMAIN req :
        LET r == req[w]
        IN  (r.op = "health" /\ r.pc = "done")
            => /\ r.g_dbPing \in {"ok", "fail"} /\ r.g_rdPing \in {"ok", "fail"}
               /\ r.status = 503 <=> r.g_dbPing = "fail"
               /\ r.err.reason = "unhealthy" <=> r.g_dbPing = "fail"
               /\ r.g_dbPing = "ok" => (r.status = 200 /\ r.err.reason = "healthy")
               /\ r.database = (IF r.g_dbPing = "ok" THEN "up" ELSE "down")
               /\ r.cache = (IF r.g_rdPing = "ok" THEN "up" ELSE "down")

(* The cache is down, the store is up, and the answer is 200 healthy *)
C13_Witness ==
    \E w \in DOMAIN req :
        /\ req[w].op = "health" /\ req[w].pc = "done"
        /\ req[w].g_dbPing = "ok" /\ req[w].g_rdPing = "fail"
        /\ req[w].status = 200 /\ req[w].cache = "down"

(* C14: while the store answers, no failure and no loss of the cache makes  *)
(* an answer 5xx, or 4xx other than the validation's; and a request that   *)
(* got nothing from the cache, its reads having failed or missed, answers  *)
(* what is computed from the store.                                        *)
StoreAtStart(r) == SubSeq(store, 1, r.g_len0)

C14_CacheFailureIsHarmless ==
    \A w \in DOMAIN req :
        LET r == req[w]
        IN  r.pc = "done"
            => /\ r.status \in {200, 201, 400}
               /\ r.status = 400 <=>
                    /\ r.op = "submit"
                    /\ validateScore(StoreAtStart(r), r.sub, r.g_t0, TRUE) # NoErr
               /\ (r.op = "submit" /\ r.status = 201 /\ r.g_rankSrc # "hit")
                    => r.rank = TrueRankAt(Len(store), r.sub.score)
               /\ (r.op = "top" /\ r.g_topSrc # "hit")
                    => r.list \in topN(store, r.limit)
               /\ (r.op = "stats" /\ r.g_rankSrc # "hit")
                    => /\ r.best = bestScoreOf(store, r.name)
                       /\ r.total = totalGamesOf(store, r.name)
                       /\ r.rank = TrueRankAt(Len(store), r.best)
                       /\ r.list \in recentScoresOf(store, r.name)

(* Every call of a submit to the cache has failed; it is answered 201 with *)
(* the rank of the store, below a greater score                            *)
C14_Witness ==
    \E w \in DOMAIN req :
        /\ req[w].op = "submit" /\ req[w].pc = "done" /\ req[w].status = 201
        /\ req[w].g_rankSrc = "miss" /\ req[w].g_cacheOps = {}
        /\ req[w].rank = 2

(* C15: a read request during which a query of the store failed is         *)
(* answered 5xx: the top-N query of a leaderboard request, and the best    *)
(* score, rank count, game count and recent scores queries of a player     *)
(* statistics request.                                                     *)
StoreQueryFailed(r) ==
    \/ r.g_rankSrc = "fail"
    \/ r.g_countFailed
    \/ r.err.reason \in {"Failed to fetch leaderboard", "Failed to fetch player stats",
                         "Failed to fetch recent scores"}

C15_ReadErrorIsFatal ==
    \A w \in DOMAIN req :
        LET r == req[w]
        IN  (r.op \in {"top", "stats"} /\ r.pc = "done" /\ StoreQueryFailed(r))
            => r.status >= 500

(* C16: a player statistics answer carries the maximum score of the        *)
(* player's rows (0 without rows), the number of these rows, the rank the  *)
(* Ranking Engine gives the best score, and the at most 10 most recent     *)
(* rows of the player, newest first.                                       *)
RowsOfPlayer(name) == {i \in DOMAIN store : store[i].player_name = name}

MaxScoreOfPlayer(name) ==
    IF RowsOfPlayer(name) = {} THEN 0
    ELSE CHOOSE m \in {store[i].score : i \in RowsOfPlayer(name)} :
            \A i \in RowsOfPlayer(name) : store[i].score <= m

MostRecentFirst(list, name) ==
    /\ Len(list) = Min(recentLimit, Cardinality(RowsOfPlayer(name)))
    /\ \A i, j \in DOMAIN list : i < j => list[i].createdAt >= list[j].createdAt
    /\ \E f \in [DOMAIN list -> RowsOfPlayer(name)] :
        /\ \A i, j \in DOMAIN list : i # j => f[i] # f[j]
        /\ \A i \in DOMAIN list :
            /\ list[i].score = store[f[i]].score
            /\ list[i].createdAt = store[f[i]].created_at
        /\ \A k \in RowsOfPlayer(name) :
            (\A i \in DOMAIN list : f[i] # k)
            => \A i \in DOMAIN list : store[k].created_at <= list[i].createdAt

StatsValues(r) ==
    /\ r.best = MaxScoreOfPlayer(r.name)
    /\ r.total = Cardinality(RowsOfPlayer(r.name))
    /\ \E k \in 0..Len(store) : r.rank = TrueRankAt(k, r.best)
    /\ r.g_rankSrc # "hit" => r.rank = TrueRankAt(Len(store), r.best)
    /\ MostRecentFirst(r.list, r.name)

C16_StatsValues ==
    \A w \in DOMAIN req :
        LET r == req[w]
        IN  (r.op = "stats" /\ r.pc = "done" /\ r.status = 200) => StatsValues(r)

(* The same, for the answers during which no query of the store failed *)
C16_StatsValuesWhenStoreAnswers ==
    \A w \in DOMAIN req :
        LET r == req[w]
        IN  (/\ r.op = "stats" /\ r.pc = "done" /\ r.status = 200
             /\ ~StoreQueryFailed(r))
            => StatsValues(r)

(* C17: the reason of a rejection is the one of the first violated rule in *)
(* the order name length, negative score, missing session, score too high, *)
(* submission rate; and the store is asked for the last submission of the  *)
(* session only when none of the first four rules is violated.             *)
FirstViolated(tooLong, sub) ==
    IF tooLong THEN "player name too long"
    ELSE IF sub.score < 0 THEN "invalid score: negative value"
    ELSE IF sub.sessionId = EmptyStr THEN "session ID required"
    ELSE IF sub.score > 100000 THEN "score too high"
    ELSE "none"

ValidatedInOrder(r, tooLong) ==
    LET first == FirstViolated(tooLong, r.sub)
    IN  /\ first # "none" => (Rejected(r, first) /\ ~r.g_rateQueried)
        /\ first = "none" =>
            /\ r.g_rateQueried
            /\ r.status = 400 => r.err.reason = "please wait"

C17_ValidationOrder ==
    \A w \in DOMAIN req :
        Decoded(req[w]) => ValidatedInOrder(req[w], charLen(req[w].sub.playerName) > 100)

(* The same, the length of a name being the number of its bytes *)
C17_ValidationOrderOfByteLength ==
    \A w \in DOMAIN req :
        Decoded(req[w]) => ValidatedInOrder(req[w], byteLen(req[w].sub.playerName) > 100)

(* C18: a submission without player name is the one of "Anonymous" before  *)
(* any rule is checked: its row and its 201 answer carry "Anonymous", and  *)
(* no row has an empty player name.                                        *)
C18_AnonymousByDefault ==
    /\ \A i \in DOMAIN store : store[i].player_name # EmptyStr
    /\ \A w \in DOMAIN req :
        LET r == req[w]
        IN  (r.op = "submit" /\ r.g_noName)
            => /\ r.sub.playerName = Anonymous
               /\ r.err.reason # "player name too long"
               /\ r.status = 201 =>
                    \E i \in DOMAIN store :
                        store[i].id = r.id /\ store[i].player_name = Anonymous

(* A submission without player name has been answered 201 *)
C18_Witness ==
    \E w \in DOMAIN req :
        req[w].op = "submit" /\ req[w].g_noName /\ req[w].status = 201

(* C19: when every ping of connectDB failed the process has exited and no  *)
(* request was ever started; when every ping of connectRedis failed the    *)
(* process goes on to listen, exits only when listening fails, and a       *)
(* leaderboard request it then serves without the cache is answered from   *)
(* the store.                                                              *)
NeverServed == budget = MaxStartupReqs /\ \A w \in DOMAIN req : req[w].pc = "idle"

C19_StartupFailures ==
    /\ proc.dbFails = dbMaxRetries =>
        (proc.phase = "exited" /\ proc.cause = "database" /\ NeverServed)
    /\ proc.phase \in {"initOTel", "connectDB", "initDB", "connectRedis", "listen",
                       "exited"} => NeverServed
    /\ ~NeverServed => (proc.phase = "serving" /\ proc.dbFails < dbMaxRetries)
    /\ proc.rdFails = redisMaxRetries =>
        /\ proc.phase \in {"listen", "serving", "exited"}
        /\ proc.phase = "exited" => proc.cause = "listen"
        /\ \A w \in DOMAIN req :
            LET r == req[w]
            IN  (r.op = "top" /\ r.pc = "done" /\ r.g_topSrc = "miss"
                 /\ r.err.reason # "Failed to fetch leaderboard")
                => (r.status = 200 /\ r.list \in topN(store, r.limit))

(* The cache was never reached, the service is serving and has answered a  *)
(* leaderboard request with the rows of the store, every call to the cache *)
(* having failed                                                           *)
C19_Witness ==
    /\ proc.rdFails = redisMaxRetries /\ proc.phase = "serving"
    /\ \E w \in DOMAIN req :
        /\ req[w].op = "top" /\ req[w].pc = "done" /\ req[w].status = 200
        /\ req[w].g_topSrc = "miss" /\ req[w].g_cacheOps = {}
        /\ Len(req[w].list) = 2

(* C20: once the signal has arrived no request is started any more, a      *)
(* request in flight may still take its steps, the process ends, whether   *)
(* the requests in flight have completed or not, and an ended process does *)
(* nothing.                                                                *)
C20_GracefulShutdown ==
    /\ [][/\ proc.phase # "serving" =>
                \A w \in DOMAIN req : req[w].pc = "idle" => req'[w].pc = "idle"
          /\ proc.phase = "shutdown" => proc'.phase \in {"shutdown", "exited"}
          /\ proc.phase = "exited" => UNCHANGED vars]_vars
    /\ (proc.phase = "shutdown") ~> (proc.phase = "exited")

(* The grace period ended the process with a request in flight *)
C20_Witness ==
    proc.phase = "exited" /\ proc.cause = "forced" /\ proc.dropped > 0

(* A request in flight at the signal has completed before the process ended *)
C20_CompletedInGrace ==
    /\ proc.phase = "shutdown" /\ proc.deadline > 0
    /\ \E w \in DOMAIN req : req[w].pc = "done" /\ req[w].status = 200

----------------------------------------------------------------------------
(* The place in the table of the row a submit inserted *)
RowIndexOf(r) == CHOOSE i \in DOMAIN store : store[i].id = r.id

(* The rows of the session of r that are in the table before the row of r  *)
(* and less than minScoreSubmissionInterval older                          *)
CloseEarlierRows(r) ==
    {j \in 1..(RowIndexOf(r) - 1) :
        /\ store[j].session_id = r.sub.sessionId
        /\ store[RowIndexOf(r)].created_at - store[j].created_at < 10}

(* C21: the rate check and the insert are two steps with nothing holding   *)
(* other requests off between them: when the store answers every lookup,   *)
(* a row of a session is stored less than 10 seconds after another row of  *)
(* that session only when that other row was inserted after the rate check *)
(* of the later submit, that is by a submit running at the same time       *)
C21_CloseRowsOnlyByRace ==
    \A w \in DOMAIN req :
        LET r == req[w]
        IN  (r.op = "submit" /\ r.g_inserted = 1)
                => \A j \in CloseEarlierRows(r) : j > r.g_len0

(* Two submits of one session are in flight, both passed the rate check    *)
(* over the same table before either inserted, and both rows are stored    *)
C21_Witness ==
    \E v, w \in DOMAIN req :
        /\ v # w
        /\ req[v].op = "submit" /\ req[w].op = "submit"
        /\ req[v].g_inserted = 1 /\ req[w].g_inserted = 1
        /\ req[v].sub.sessionId = req[w].sub.sessionId
        /\ req[v].g_len0 = req[w].g_len0
        /\ RowIndexOf(req[v]) > req[w].g_len0 /\ RowIndexOf(req[w]) > req[v].g_len0
        /\ RowIndexOf(req[v]) \in CloseEarlierRows(req[w])

----------------------------------------------------------------------------
(* C22: every row of the table has a score from 0 to 100000, a name that   *)
(* is not empty and has at most 100 characters, and a session identifier   *)
(* that is not empty                                                       *)
C22_RowsAreValid ==
    \A i \in DOMAIN store :
        /\ 0 <= store[i].score /\ store[i].score <= 100000
        /\ store[i].player_name # EmptyStr
        /\ charLen(store[i].player_name) <= 100
        /\ store[i].session_id # EmptyStr

(* Rows at the limits are stored: the highest score with a name of 100     *)
(* characters, and the score 0 under the default name                      *)
C22_Witness ==
    /\ \E i \in DOMAIN store :
          store[i].score = 100000 /\ charLen(store[i].player_name) = 100
    /\ \E i \in DOMAIN store :
          store[i].score = 0 /\ store[i].player_name = Anonymous

----------------------------------------------------------------------------
(* The steps of submitScoreHandler in the order of its code: the position  *)
(* before and after a step of a submit request                             *)
SubmitOrder ==
    {<<"idle", "insert">>, <<"idle", "done">>,
     <<"insert", "invalidate">>, <<"insert", "done">>,
     <<"invalidate", "rankGet">>,
     <<"rankGet", "rankCount">>, <<"rankGet", "done">>,
     <<"rankCount", "rankSet">>, <<"rankCount", "done">>,
     <<"rankSet", "done">>}

(* What a step of the submit request of worker w does to the store and to  *)
(* the cache.  mayOverwrite: the SET of the rank key may replace an entry. *)
SubmitStepFrame(w, mayOverwrite) ==
    LET r == req[w]
        own == cacheKeyPlayerRank(req'[w].sub.score)
    IN  /\ <<r.pc, req'[w].pc>> \in SubmitOrder
        /\ store' # store => r.pc = "insert" /\ req'[w].pc = "invalidate"
        /\ (req'[w].pc = "done" /\ req'[w].status = 201) => r.pc \in {"rankGet", "rankCount", "rankSet"}
        \* the snapshot key: never written, deleted by invalidateCache only
        /\ cacheKeyTopScores \in DOMAIN redis' =>
              cacheKeyTopScores \in DOMAIN redis
                 /\ redis'[cacheKeyTopScores] = redis[cacheKeyTopScores]
        /\ cacheKeyTopScores \in DOMAIN redis \ DOMAIN redis' => r.pc = "invalidate"
        /\ "del" \in req'[w].g_cacheOps \ r.g_cacheOps =>
              r.pc = "invalidate" /\ cacheKeyTopScores \notin DOMAIN redis'
        \* the rank keys
        /\ \A k \in DOMAIN redis \ {cacheKeyTopScores} :
              /\ k \in DOMAIN redis'
              /\ redis'[k] # redis[k] =>
                    mayOverwrite /\ k = own /\ r.pc = "rankSet" /\ r.g_rankSrc = "miss"
        /\ \A k \in DOMAIN redis' \ DOMAIN redis :
              k = own /\ r.pc = "rankSet" /\ r.g_rankSrc = "miss"

SubmitStepOf(w) == req'[w] # req[w] /\ req'[w].op = "submit"

(* C23: a submit validates, inserts, deletes the snapshot key, computes    *)
(* the rank and answers, in this order; it never writes the snapshot key;  *)
(* it deletes or overwrites no rank entry that exists and writes at most   *)
(* the entry of its own score after a miss                                 *)
C23_SubmitFrame ==
    [][\A w \in DOMAIN req : SubmitStepOf(w) => SubmitStepFrame(w, FALSE)]_vars

(* C23, amended: as above, but the SET after a miss replaces the entry of  *)
(* the own score when there is one, which is the case when the GET failed  *)
C23_SubmitFrameOwnKeyReplaced ==
    [][\A w \in DOMAIN req : SubmitStepOf(w) => SubmitStepFrame(w, TRUE)]_vars

(* A submit answered 201 after it deleted the snapshot key and wrote the   *)
(* rank of its score, while the rank entry of another score is in the cache *)
C23_Witness ==
    \E w \in DOMAIN req :
        LET r == req[w]
        IN  /\ r.op = "submit" /\ r.pc = "done" /\ r.status = 201
            /\ r.g_cacheOps = {"del", "rankSet"} /\ r.g_rankSrc = "miss"
            /\ cacheKeyTopScores \notin DOMAIN redis
            /\ cacheKeyPlayerRank(r.sub.score) \in DOMAIN redis
            /\ redis[cacheKeyPlayerRank(r.sub.score)].val = r.rank
            /\ \E k \in DOMAIN redis : k # cacheKeyPlayerRank(r.sub.score)

----------------------------------------------------------------------------
(* The three steps of calculateRank as the request of worker w takes them: *)
(* the GET, the count in the store, the SET                                *)
RankGetStep(w) ==
    LET r == req[w]
        q == req'[w]
        k == cacheKeyPlayerRank(rankScore(r))
        live == redisLive(redis, k, now)
    IN  /\ redis' = redis /\ store' = store
        /\ q.g_hits + q.g_misses = r.g_hits + r.g_misses + 1
        /\ ~live => q.pc = "rankCount"
        /\ q.pc = "rankCount" => q.g_misses = r.g_misses + 1 /\ ~q.g_counted
        /\ q.pc # "rankCount" =>
              /\ live /\ q.g_hits = r.g_hits + 1
              /\ q.rank = redis[k].val
              /\ ~q.g_counted

RankCountStep(w) ==
    LET r == req[w]
        q == req'[w]
        s == rankScore(r)
    IN  /\ redis' = redis /\ store' = store
        /\ q.g_counted
        /\ q.g_hits = r.g_hits /\ q.g_misses = r.g_misses
        /\ q.pc = "rankSet" =>
              q.rank = Cardinality({i \in DOMAIN store : store[i].score > s}) + 1

RankSetStep(w) ==
    LET r == req[w]
        q == req'[w]
        k == cacheKeyPlayerRank(rankScore(r))
    IN  /\ store' = store
        /\ q.g_hits = r.g_hits /\ q.g_misses = r.g_misses
        /\ q.rank = r.rank
        /\ \/ redis' = redis
           \/ /\ DOMAIN redis' = DOMAIN redis \cup {k}
              /\ redis'[k].val = r.rank /\ redis'[k].exp = now + 300
              /\ \A x \in DOMAIN redis \ {k} : redis'[x] = redis[x]
        /\ "rankSet" \in q.g_cacheOps =>
              k \in DOMAIN redis' /\ redis'[k].val = r.rank /\ redis'[k].exp = now + 300

(* C24: calculateRank counts in the store exactly when the GET of the rank *)
(* key of the score gave no entry.  A hit returns the cached integer       *)
(* without a query and adds one to the cache hits; a miss adds one to the  *)
(* cache misses, returns the count of the higher scores plus one and, when *)
(* the count succeeded, SETs it under the key of the score for 5 minutes.  *)
(* Each call adds one to exactly one of the two counters.                  *)
C24_RankHitOrMiss ==
    [][\A w \in DOMAIN req :
          req'[w] # req[w] =>
             /\ req[w].pc = "rankGet" => RankGetStep(w)
             /\ req[w].pc = "rankCount" => RankCountStep(w)
             /\ req[w].pc = "rankSet" => RankSetStep(w)]_vars

(* A submit answered 201 with the rank it found in the cache: one hit, no  *)
(* miss, no count in the store                                             *)
C24_Witness ==
    \E w \in DOMAIN req :
        LET r == req[w]
        IN  /\ r.op = "submit" /\ r.pc = "done" /\ r.status = 201
            /\ r.g_hits = 1 /\ r.g_misses = 0 /\ ~r.g_counted
            /\ redisLive(redis, cacheKeyPlayerRank(r.sub.score), now)
            /\ redis[cacheKeyPlayerRank(r.sub.score)].val = r.rank

----------------------------------------------------------------------------
(* The first n rows were the whole table at some time not before t *)
CurrentSince(n, t) == n = Len(store) \/ store[n + 1].created_at >= t

(* The value under key k is what the queries give over the first n rows:   *)
(* a list of the leaderboard query, or the rank of the score of the key    *)
DerivedFrom(k, n) ==
    IF k = cacheKeyTopScores
    THEN LET l == redis[k].val
         IN  /\ Len(l) <= n
             /\ Len(l) = 0 => n = 0
             /\ l \in topN(SubSeq(store, 1, n), Len(l))
    ELSE redis[k].val = TrueRankAt(n, k[2])

(* C25: every entry of the cache expires 5 minutes after it was written,   *)
(* so what the cache serves at time t is what the store gave at some time  *)
(* not before t - 5 minutes                                                *)
C25_StalenessWithinTTL ==
    \A k \in DOMAIN redis :
        /\ redis[k].exp <= now + 300
        /\ redisLive(redis, k, now) =>
              \E n \in 0..Len(store) : CurrentSince(n, now - 300) /\ DerivedFrom(k, n)

(* C25, amended: every entry expires 5 minutes after it was written, and   *)
(* its value is what the store gave when its writer read it, which is      *)
(* before the write by the time the writer took between the two            *)
C25_StalenessWithinTTLOfWrite ==
    \A k \in DOMAIN redis :
        LET e == redis[k]
        IN  /\ e.exp <= now + 300
            /\ e.g_read <= e.exp - 300
            /\ e.g_len <= Len(store)
            /\ DerivedFrom(k, e.g_len)
            /\ CurrentSince(e.g_len, e.g_read)
            /\ e.g_len >= 1 => store[e.g_len].created_at <= e.g_read

(* A leaderboard request is answered from the cache with a list that was   *)
(* read before a row was stored, more than 5 minutes after that row        *)
C25_Witness ==
    \E w \in DOMAIN req :
        LET r == req[w]
        IN  /\ r.op = "top" /\ r.pc = "done" /\ r.g_topSrc = "hit"
            /\ redisLive(redis, cacheKeyTopScores, now)
            /\ r.list = redis[cacheKeyTopScores].val
            /\ redis[cacheKeyTopScores].g_len < Len(store)
            /\ store[redis[cacheKeyTopScores].g_len + 1].created_at < now - 300

----------------------------------------------------------------------------
StatsStepOf(w) == req'[w] # req[w] /\ req'[w].op = "stats"

(* C26: getPlayerStats uses no caching: it neither reads nor writes a key  *)
(* of the cache, and the cache is the same before and after                *)
C26_StatsLeavesCacheAlone ==
    [][\A w \in DOMAIN req :
          StatsStepOf(w) =>
             /\ redis' = redis
             /\ req'[w].g_hits = req[w].g_hits
             /\ req'[w].g_misses = req[w].g_misses]_vars

(* C26, amended: getPlayerStats caches none of its own queries, but its    *)
(* rank comes from calculateRank: one GET of the rank key of the best      *)
(* score and, after a miss and a count, one SET of that key.  No other key *)
(* is read or written.                                                     *)
C26_StatsUsesRankCacheOnly ==
    [][\A w \in DOMAIN req :
          StatsStepOf(w) =>
             LET r == req[w]
                 q == req'[w]
                 own == cacheKeyPlayerRank(q.best)
             IN  /\ q.g_hits + q.g_misses # r.g_hits + r.g_misses =>
                       r.pc = "rankGet" /\ q.g_hits + q.g_misses = 1
                 /\ redis' # redis => r.pc = "rankSet" /\ r.g_misses = 1
                 /\ DOMAIN redis \subseteq DOMAIN redis'
                 /\ \A k \in DOMAIN redis' :
                       k # own => k \in DOMAIN redis /\ redis'[k] = redis[k]]_vars

(* A player-stats request answered 200 after it missed the rank of the     *)
(* best score in the cache and wrote it there                              *)
C26_Witness ==
    \E w \in DOMAIN req :
        LET r == req[w]
        IN  /\ r.op = "stats" /\ r.pc = "done" /\ r.status = 200
            /\ r.best > 0
            /\ r.g_misses = 1 /\ r.g_cacheOps = {"rankSet"}
            /\ cacheKeyPlayerRank(r.best) \in DOMAIN redis
            /\ redis[cacheKeyPlayerRank(r.best)].val = r.rank

----------------------------------------------------------------------------
SuspiciousReasons == {"invalid score: negative value", "score too high", "please wait"}

PlainReasons == {"player name too long", "session ID required"}

(* C27: a submission that the validation rejects is marked suspicious      *)
(* exactly when the reason is a negative score, a score that is too high   *)
(* or the submission rate; a name that is too long and a missing session   *)
(* are not marked.  All five are answered 400.                             *)
C27_SuspiciousReasons ==
    \A w \in DOMAIN req :
        LET r == req[w]
        IN  (r.op = "submit" /\ r.pc = "done" /\ Decoded(r) /\ r.g_inserted = 0
                /\ r.err # NoErr /\ r.status # 500)
                => /\ r.status = 400
                   /\ r.err.reason \in SuspiciousReasons \cup PlainReasons
                   /\ r.err.suspicious <=> r.err.reason \in SuspiciousReasons
                   /\ r.err.reason = "invalid score: negative value" => r.sub.score < 0
                   /\ r.err.reason = "score too high" => r.sub.score > 100000
                   /\ r.err.reason = "player name too long" => byteLen(r.sub.playerName) > 100
                   /\ r.err.reason = "session ID required" => r.sub.sessionId = EmptyStr
                   /\ r.err.reason = "please wait" => SessionRowsAtStart(r) # {}

(* A submission is answered 400 for its rate and marked: the session has   *)
(* the one row of the table                                                *)
C27_Witness ==
    \E w \in DOMAIN req :
        LET r == req[w]
        IN  /\ r.op = "submit" /\ r.pc = "done" /\ r.status = 400
            /\ r.err.reason = "please wait" /\ r.err.suspicious
            /\ Len(store) = 1

----------------------------------------------------------------------------
(* What a step adds to the counter of submissions and to the counters of   *)
(* errors                                                                  *)
AddedSubmissions == scoreSubmissionsTotal' - scoreSubmissionsTotal

AddedErrors(l) == scoreSubmissionErrors'[l] - scoreSubmissionErrors[l]

(* The one counter a submit answered as q counts in *)
CounterOf(q) ==
    IF q.status = 201 THEN "submissions"
    ELSE IF q.status = 500 THEN "db_insert_failed"
    ELSE IF Decoded(q) THEN "validation_failed"
    ELSE "invalid_json"

SubmitCountedOnce(w) ==
    LET q == req'[w]
    IN  IF q.pc = "done"
        THEN /\ q.status \in {201, 400, 500}
             /\ AddedSubmissions = (IF CounterOf(q) = "submissions" THEN 1 ELSE 0)
             /\ \A l \in ErrorLabels : AddedErrors(l) = (IF CounterOf(q) = l THEN 1 ELSE 0)
        ELSE /\ AddedSubmissions = 0
             /\ \A l \in ErrorLabels : AddedErrors(l) = 0

(* C28: every submit adds one, once, to exactly one counter: to the        *)
(* submissions when it is answered 201, else to the errors under           *)
(* invalid_json, validation_failed or db_insert_failed; no other step      *)
(* counts.  So the submissions counted are the rows inserted and answered. *)
C28_OneCounterPerSubmit ==
    /\ [][/\ \A w \in DOMAIN req : SubmitStepOf(w) => SubmitCountedOnce(w)
          /\ (\A w \in DOMAIN req : ~SubmitStepOf(w)) =>
                /\ AddedSubmissions = 0
                /\ \A l \in ErrorLabels : AddedErrors(l) = 0]_vars
    /\ [](scoreSubmissionsTotal + Cardinality(Unanswered) = Len(store))

(* Three submits were answered: one is counted as a submission, one under  *)
(* db_insert_failed and one under a label of the 400 answers               *)
C28_Witness ==
    \E w \in DOMAIN req :
        /\ req[w].op = "submit" /\ req[w].pc = "done"
        /\ scoreSubmissionsTotal = 1 /\ Len(store) = 1
        /\ scoreSubmissionErrors["db_insert_failed"] = 1
        /\ scoreSubmissionErrors["validation_failed"] + scoreSubmissionErrors["invalid_json"] = 1

----------------------------------------------------------------------------
----------------------------------------------------------------------------
StartupOver == proc.phase \in {"serving", "exited"}

(* C30: the startup always ends: at most 10 pings of the store and 10 of   *)
(* the cache with a fixed delay, and no step that waits without bound for  *)
(* a dependency that is not reachable, the telemetry collector included,   *)
(* so the process comes to serve or exits                                  *)
C30_StartupTerminates ==
    /\ [](proc.dbFails <= 10 /\ proc.rdFails <= 10)
    /\ <>StartupOver

(* The loops of connectDB and connectRedis are bounded: once initOTel has  *)
(* returned, the process comes to serve or exits, after at most 20 failed  *)
(* pings and 40 seconds of sleep                                           *)
C30_TerminatesAfterTelemetry ==
    /\ [](proc.dbFails <= 10 /\ proc.rdFails <= 10
          /\ (proc.phase \notin {"initOTel", "dialing"} =>
                 now = 2 * (proc.dbFails + proc.rdFails)))
    /\ (proc.phase = "connectDB") ~> StartupOver

(* The process serves after 9 failed pings of the store and 10 of the cache *)
C30_Witness ==
    /\ proc.phase = "serving" /\ proc.dbFails = 9 /\ proc.rdFails = 10
    /\ now = 38

----------------------------------------------------------------------------
----------------------------------------------------------------------------
RankKeysCached == {k \in DOMAIN redis : k # cacheKeyTopScores}

(* C32: in every state the rank r cached for a score S is at least 1 and   *)
(* at most the number of rows with a greater score, plus one: rows are     *)
(* only added, so a cached rank is never behind the place the score has    *)
C32_CachedRankNotOverstated ==
    \A k \in RankKeysCached :
        /\ 1 <= redis[k].val
        /\ redis[k].val <= Cardinality({i \in DOMAIN store : store[i].score > k[2]}) + 1

(* The rank cached for a score is less than the rank the score has now:    *)
(* a row with a greater score was stored after the rank was counted        *)
C32_Witness ==
    \E k \in RankKeysCached :
        /\ redis[k].val = 1
        /\ Cardinality({i \in DOMAIN store : store[i].score > k[2]}) = 1
        /\ \E i \in DOMAIN store : store[i].score = k[2]

----------------------------------------------------------------------------
(* The ranks in the answer of a submit and in a leaderboard list *)
SubmitRankValid(r) ==
    (r.op = "submit" /\ r.pc = "done" /\ r.status = 201)
        => (r.rank >= 1 \/ (r.rank = -1 /\ r.g_rankSrc = "fail"))

TopRanksValid(r) ==
    (r.op = "top" /\ r.pc = "done" /\ r.status = 200)
        => \A i \in DOMAIN r.list : r.list[i].rank >= 1

StatsRankValid(r) ==
    (r.op = "stats" /\ r.pc = "done" /\ r.status = 200) => r.rank >= 1

(* C33: every rank the service returns is at least 1, but for the -1 of a  *)
(* submit whose rank could not be computed; the currentRank of a 200       *)
(* player-stats answer is at least 1                                       *)
C33_RanksAreValid ==
    \A w \in DOMAIN req :
        SubmitRankValid(req[w]) /\ TopRanksValid(req[w]) /\ StatsRankValid(req[w])

(* The ranks of submits and of leaderboard lists are as claimed; the       *)
(* currentRank of a 200 player-stats answer is at least 1, or 0 when       *)
(* calculateRank returned an error                                         *)
C33_RanksAreValidOrZeroInStats ==
    \A w \in DOMAIN req :
        LET r == req[w]
        IN  /\ SubmitRankValid(r) /\ TopRanksValid(r)
            /\ (r.op = "stats" /\ r.pc = "done" /\ r.status = 200)
                  => (r.rank >= 1 \/ (r.rank = 0 /\ r.g_rankSrc = "fail"))

----------------------------------------------------------------------------
(* C34: while the store is reachable, every submission that passes the     *)
(* five rules of the validation is inserted and answered 201: what the     *)
(* columns of the table refuse, a session identifier of more than 100      *)
(* characters included, the validation has rejected, and no input of the   *)
(* client is answered 500                                                  *)
C34_ValidatedIsInserted ==
    \A w \in DOMAIN req :
        LET r == req[w]
        IN  (r.op = "submit" /\ r.pc = "done" /\ r.status # 400)
                => /\ r.status = 201
                   /\ r.g_inserted = 1
                   /\ \E i \in DOMAIN store : store[i].id = r.id

(* What holds: a validated submission is inserted and answered 201 unless  *)
(* its session identifier has more than 100 characters, which the          *)
(* validation lets pass and the table refuses: it is answered 500          *)
C34_ValidatedIsInsertedUnlessSessionTooLong ==
    \A w \in DOMAIN req :
        LET r == req[w]
        IN  (r.op = "submit" /\ r.pc = "done" /\ r.status # 400)
                => IF charLen(r.sub.sessionId) <= 100
                   THEN r.status = 201 /\ r.g_inserted = 1
                   ELSE r.status = 500 /\ r.g_inserted = 0

----------------------------------------------------------------------------
Handling == budget < MaxStartupReqs \/ \E w \in DOMAIN req : req[w].pc # "idle"

(* C35: no request is handled before the steps of the startup have been    *)
(* taken in their order: telemetry initialised, the store pinged with      *)
(* success, the schema initialised, the connection to the cache tried;     *)
(* the listener starts after all of them                                   *)
C35_ServesAfterStartup ==
    /\ Handling => proc.g_done = <<"initOTel", "connectDB", "initDB", "connectRedis", "listen">>
    /\ proc.phase \in {"listen", "serving"} =>
          /\ SubSeq(proc.g_done, 1, 4) = <<"initOTel", "connectDB", "initDB", "connectRedis">>
          /\ proc.dbFails < 10
    /\ \E n \in 0..5 :
          proc.g_done = SubSeq(<<"initOTel", "connectDB", "initDB", "connectRedis", "listen">>, 1, n)

(* A health request is answered by a process that pinged the store with    *)
(* success at its third try and gave up on the cache                       *)
C35_Witness ==
    /\ proc.phase = "serving" /\ proc.dbFails = 2 /\ proc.rdFails = 10
    /\ \E w \in DOMAIN req : req[w].op = "health" /\ req[w].pc = "done"

----------------------------------------------------------------------------
(* The paths some route is registered on, with whatever method            *)
Registered(p) == \E r \in routes : pathMatches(r.path, p)

Answered == {w \in DOMAIN req : req[w].pc = "done"}

(* C36: every answer carries Access-Control-Allow-Origin "*", and an       *)
(* OPTIONS request to a registered path is answered 200 with the CORS      *)
(* headers by the middleware, without the handler of the route, the store  *)
(* or the cache                                                            *)
C36_CorsOnEveryAnswer ==
    \A w \in Answered :
        LET r == req[w]
        IN  /\ r.allowOrigin = "*"
            /\ (r.method = "OPTIONS" /\ Registered(r.path))
                  => (r.status = 200 /\ r.op = "preflight")

(* What holds: the answers of the handlers carry the header, the answers   *)
(* mux gives itself do not, and every OPTIONS request is answered by mux   *)
(* with 405 on a registered path and 404 elsewhere; none reaches a handler *)
C36_CorsOnMatchedRoutesOnly ==
    \A w \in DOMAIN req :
        LET r == req[w]
        IN  /\ r.op \notin {"idle", "mux"} => r.allowOrigin = "*"
            /\ r.op = "mux" => (r.allowOrigin = "" /\ r.status \in {404, 405})
            /\ r.method = "OPTIONS"
                  => (r.op = "mux"
                      /\ r.status = IF Registered(r.path) THEN 405 ELSE 404)

----------------------------------------------------------------------------
(* C37: every path served without the prefix (/api/scores,                 *)
(* /api/leaderboard/top, /api/leaderboard/player/{name}, /health,          *)
(* /metrics) is served with the same method by the same handler under      *)
(* /spice/leaderboard followed by the same path                            *)
C37_PrefixMirrorsPaths ==
    \A w \in Answered, d \in directRoutes :
        (req[w].method = d.method /\ pathMatches(pathPrefix \o d.path, req[w].path))
            => req[w].op = d.handler

(* The routes under /api *)
apiRoutes == {d \in directRoutes : d.path[1] = "api"}

(* C37, amended: the three paths under /api are served with the same       *)
(* method by the same handler under the prefix; the health check under the *)
(* prefix is at /api/health, which does not exist without the prefix;      *)
(* /health and /metrics under the prefix are answered 404                  *)
C37_PrefixMirrorsApiPaths ==
    \A w \in Answered :
        LET r == req[w]
        IN  /\ \A d \in apiRoutes :
                  (r.method = d.method /\ pathMatches(pathPrefix \o d.path, r.path))
                      => r.op = d.handler
            /\ (r.method = "GET" /\ r.path = pathPrefix \o <<"api", "health">>)
                  => r.op = "health"
            /\ r.path = <<"api", "health">> => (r.op = "mux" /\ r.status = 404)
            /\ r.path \in {pathPrefix \o <<"health">>, pathPrefix \o <<"metrics">>}
                  => (r.op = "mux" /\ r.status = 404)

(* A submission posted to /spice/leaderboard/api/scores is stored and      *)
(* answered 201 by the submit handler                                      *)
C37_Witness ==
    \E w \in Answered :
        /\ req[w].path = pathPrefix \o <<"api", "scores">>
        /\ req[w].op = "submit"
        /\ req[w].status = 201
        /\ Len(store) = 1

----------------------------------------------------------------------------
(* The heartbeats with a status among the events of the last callback     *)
HeartbeatsSent(status) ==
    {i \in DOMAIN tracker.out :
        /\ tracker.out[i].name = "game_session_heartbeat"
        /\ tracker.out[i].status = status}

TimerRunning == DOMAIN tracker.timers # {}

(* C38: after any sequence of setActive, setInactive, updateActivity and   *)
(* timer ticks, the heartbeat timer runs exactly when the session is       *)
(* active; setActive on an active session and setInactive on an inactive   *)
(* one change nothing; each transition from active to inactive sends       *)
(* exactly one heartbeat with status inactive, and none is sent otherwise; *)
(* no heartbeat with status active is sent while the session is inactive   *)
C38_TrackerConsistent ==
    /\ TimerRunning <=> tracker.isGameActive
    /\ DOMAIN tracker.timers =
          IF tracker.isGameActive THEN {tracker.heartbeatInterval} ELSE {}
    /\ ~tracker.isGameActive => tracker.heartbeatInterval = null
    /\ (tracker.g_call = "setActive" /\ tracker.g_was.isGameActive)
          => (closure(tracker) = tracker.g_was /\ tracker.out = <<>>)
    /\ (tracker.g_call = "setInactive" /\ ~tracker.g_was.isGameActive)
          => (closure(tracker) = tracker.g_was /\ tracker.out = <<>>)
    /\ Cardinality(HeartbeatsSent("inactive")) =
          IF tracker.g_was.isGameActive /\ ~tracker.isGameActive THEN 1 ELSE 0
    /\ \A i \in HeartbeatsSent("active") : tracker.out[i].g_active

(* A tick of the timer ends a session that has lasted more than the        *)
(* maximum while the player was active: a timeout event, then the one      *)
(* heartbeat with status inactive, and no timer is left                    *)
C38_Witness ==
    /\ tracker.g_call = "timer"
    /\ tracker.g_was.isGameActive
    /\ ~tracker.isGameActive
    /\ ~TimerRunning
    /\ Len(tracker.out) = 2
    /\ tracker.out[1].reason = "max_duration"
    /\ tracker.out[2].status = "inactive"

====
